---- MODULE Spec2Model ----
(***************************************************************************)
(* State machine of the flush-capacitor server (src/server/server.go):     *)
(* the loop goroutine that owns the sensor records and the websocket       *)
(* connections, and the goroutines that talk to it over unbuffered         *)
(* channels (RegisterSensor callers, sensor watchers, HTTP handlers,       *)
(* connection readers, forwarders, Terminate and ListenAndServe callers).  *)
(*                                                                         *)
(* Channel semantics.  All channels of Server are unbuffered.  A goroutine *)
(* that reaches a send blocks until loop() receives from it; the blocked   *)
(* senders are the elements of `parked`, and a step of loop() is one       *)
(* iteration of its for/select: the receive and the whole case body.       *)
(* When several cases of a select are ready one of them is chosen          *)
(* nondeterministically.  A goroutine blocked in a select that has termCh  *)
(* among its cases continues with the termCh case when termCh is closed,   *)
(* and such a select entered after the close takes the termCh case: its    *)
(* send case is ready only while loop() is blocked in its own select, and  *)
(* loop() never blocks there once termCh is closed.                        *)
(***************************************************************************)
EXTENDS Integers, Sequences, FiniteSets, TLC

\* ---- bounds --------------------------------------------------------------
NCaps == 2          \* sensor capabilities handed to RegisterSensor
NReg == 2           \* RegisterSensor calls
NConn == 2          \* /changes requests (each upgrades at most one connection)
NHttp == 1          \* GET /api/sensors requests
NTerm == 2          \* Terminate calls
MaxChanges == 2     \* state changes of the sensor capabilities
MaxFwd == 2         \* events read by the forwarder
MaxOps == 4         \* calls and events of the environment, all kinds together
MaxDials == 7       \* connection attempts of the forwarder
MaxFrames == 2      \* messages read by the reader of the forwarder

Caps == 1..NCaps
Regs == 1..NReg
Conns == 1..NConn
Https == 1..NHttp
Terms == 1..NTerm

StateLow == "unlocked"
StateError == "error"
StateHigh == "locked"
States == {StateLow, StateHigh}
Names == {"L", "R"}

\* Name() of a capability: capabilities 1, 3, .. are "L", 2, 4, .. are "R".
CapName(c) == IF c % 2 = 1 THEN "L" ELSE "R"

\* toggle() of the random sensor.
Toggle(s) == IF s = StateLow THEN StateHigh ELSE StateLow

VARIABLES
    sensors,        \* srv.sensors: sequence of [name, state]
    conns,          \* srv.conns: sequence of connections
    hubPc,          \* position of loop(): select, drain, exited
    drainLeft,      \* receives left in the termination loop of loop()
    parked,         \* senders blocked on a channel of the server
    runningClosed,  \* runningCh is closed
    termClosed,     \* termCh is closed
    termAckClosed,  \* termAckCh is closed
    panicked,       \* the process panicked (close of a closed channel)
    capState,       \* State() of each capability
    capWatched,     \* number of watchers installed on each capability
    nChanges,       \* state changes so far
    capOther,       \* a watcher was set on the capability by another caller
    capPin,         \* sensorPinValue of each capability
    pinErr,         \* the sensor pin of each capability reports an error
    irqCap,         \* the capability of the last IRQ event, 0 before it
    regPc,          \* RegisterSensor calls: idle, sent, done
    regCap,         \* the capability each call registers
    regRes,         \* the error each call returned
    regAfterTerm,   \* the call was made with termCh closed
    httpPc,         \* GET /api/sensors requests: idle, wait, done
    httpRes,        \* their status code
    httpBody,       \* their body
    httpAfterTerm,  \* the request reached its select with termCh closed
    chgPc,          \* /changes requests: idle, register, sent, done
    chgRes,         \* their status code
    chgAfterTerm,   \* the request made its terminating() check with termCh closed
    connSt,         \* connections: none, open, closed
    hubClosed,      \* times loop() called Close() on the connection
    readerPc,       \* reader goroutines: none, reading, sent
    log,            \* per connection: the WriteJSON calls of loop()
    replayOf,       \* per connection: srv.sensors when it was registered
    nBcast,         \* calls of broadcastSensorChange so far
    regOrder,       \* the records of the successful RegisterSensor calls
    nChangedHandled,\* sensorChangedCh messages handled
    tPc,            \* Terminate calls: idle, close, waitAck, stopFwd, closeLn, done
    tRes,           \* the error each call returned
    tAfterTerm,     \* the call made its select with termCh closed
    connsAtTerm,    \* srv.conns when loop() took its termCh case
    fwdOrder,       \* the forwarded events in the order loop() applied them
    unregOf,        \* the last unregisterConnCh case: the connection received
                    \* and srv.conns before it
    lasPc,          \* ListenAndServe: idle, listen, forward, serve, done
    listener,       \* srv.listener: nil, open, closed
    lnCloses,       \* times the listener was closed
    fwdSt,          \* the forwarders: off, running, dead
    fwdStops,       \* times the forwarders were stopped
    nFwd,           \* events read by the forwarder so far
    fmPc,           \* connectionManager: off, select, dial, wait, exited, panicked
    reconnectCh,    \* seconds of the timer behind reconnectCh, NoTimer when
                    \* the channel is nil or its value was received
    reconnectBackoff, \* seconds
    ws,             \* forwarder.ws: nil, conn
    wsClosed,       \* Close() was called on forwarder.ws
    rdPc,           \* readLoop: none, read, done
    wrPc,           \* writeLoop: none, wait, done
    fDying,         \* forwarder.t.Dying() is closed
    fDead,          \* forwarder.t.Dead() is closed
    nDials,         \* connection attempts so far
    nFail,          \* failed attempts since the start or the last success
    everConnected,  \* an attempt has succeeded
    lastWait,       \* seconds of the timer that started the last attempt
    lastFrame,      \* the last message the reader read
    nFrames,        \* messages read so far
    pingFlip,       \* flips with every PING that was written
    rdDeadline,     \* the read deadline of forwarder.ws
    nOps            \* calls and events of the environment so far

hubVars == <<sensors, conns, hubPc, drainLeft, parked>>
chanVars == <<runningClosed, termClosed, termAckClosed, panicked>>
capVars == <<capState, capWatched, capOther, nChanges, capPin, pinErr,
            irqCap>>
regVars == <<regPc, regCap, regRes, regAfterTerm>>
httpVars == <<httpPc, httpRes, httpBody, httpAfterTerm>>
chgVars == <<chgPc, chgRes, chgAfterTerm>>
connVars == <<connSt, hubClosed, readerPc, log, replayOf>>
ghostVars == <<nBcast, regOrder, nChangedHandled, connsAtTerm, fwdOrder,
              unregOf>>
termVars == <<tPc, tRes, tAfterTerm>>
lasVars == <<lasPc, listener, lnCloses>>
fmVars == <<fmPc, reconnectCh, reconnectBackoff, ws, wsClosed, rdPc, wrPc,
            fDying, fDead, nDials, nFail, everConnected, lastWait, lastFrame,
            nFrames, pingFlip, rdDeadline>>
fwdVars == <<fwdSt, fwdStops, nFwd, fmVars>>
envVars == <<nOps>>

vars == <<hubVars, chanVars, capVars, regVars, httpVars, chgVars, connVars,
          ghostVars, termVars, lasVars, fwdVars, envVars>>

\* ---- forwarder constants -------------------------------------------------
\* Seconds.
initialReconnectBackoff == 2
maxReconnectBackoff == 60

\* reconnectCh is nil, or the value of its timer was received.
NoTimer == -1

\* A message read from the source feed: a text frame with an event object, a
\* frame that is not a text frame, a text frame that is not JSON or not a JSON
\* object, a text frame with a JSON object that has no name and no state.
NoFrame == [kind |-> "none", name |-> "", state |-> ""]
Frames ==
    {[kind |-> "event", name |-> n, state |-> s] : n \in Names, s \in States}
    \cup {[kind |-> k, name |-> "", state |-> ""] :
              k \in {"binary", "garbage", "object"}}

\* No connection was received on unregisterConnCh yet.
NoUnreg == [conn |-> 0, before |-> <<>>]

\* ---- messages ------------------------------------------------------------
Msg(t, i, n, s) == [type |-> t, id |-> i, name |-> n, state |-> s]

\* serveSensors sending without a termCh case.
TermSelectTypes_NoServe == {"regconn", "fwdgo"}

\* The sends made in a select that also waits on termCh.
TermSelectTypes == {"serve", "regconn", "fwdgo"}

Record(n, s) == [name |-> n, state |-> s]

RECURSIVE SeqToSet(_)
SeqToSet(s) == IF s = <<>> THEN {} ELSE {Head(s)} \cup SeqToSet(Tail(s))

HasName(recs, n) == \E i \in 1..Len(recs) : recs[i].name = n

Init ==
    /\ sensors = <<>>
    /\ conns = <<>>
    /\ hubPc = "select"
    /\ drainLeft = 0
    /\ parked = {}
    /\ runningClosed = FALSE
    /\ termClosed = FALSE
    /\ termAckClosed = FALSE
    /\ panicked = FALSE
    /\ capState = [c \in Caps |-> StateLow]
    /\ capWatched = [c \in Caps |-> 0]
    /\ capOther = [c \in Caps |-> FALSE]
    /\ nChanges = 0
    /\ capPin = [c \in Caps |-> FALSE]
    /\ pinErr = [c \in Caps |-> FALSE]
    /\ irqCap = 0
    /\ regPc = [k \in Regs |-> "idle"]
    /\ regCap = [k \in Regs |-> 1]
    /\ regRes = [k \in Regs |-> "none"]
    /\ regAfterTerm = [k \in Regs |-> FALSE]
    /\ httpPc = [h \in Https |-> "idle"]
    /\ httpRes = [h \in Https |-> "none"]
    /\ httpBody = [h \in Https |-> <<>>]
    /\ httpAfterTerm = [h \in Https |-> FALSE]
    /\ chgPc = [c \in Conns |-> "idle"]
    /\ chgRes = [c \in Conns |-> "none"]
    /\ chgAfterTerm = [c \in Conns |-> FALSE]
    /\ connSt = [c \in Conns |-> "none"]
    /\ hubClosed = [c \in Conns |-> 0]
    /\ readerPc = [c \in Conns |-> "none"]
    /\ log = [c \in Conns |-> <<>>]
    /\ replayOf = [c \in Conns |-> <<>>]
    /\ nBcast = 0
    /\ regOrder = <<>>
    /\ nChangedHandled = 0
    /\ tPc = [t \in Terms |-> "idle"]
    /\ tRes = [t \in Terms |-> "none"]
    /\ tAfterTerm = [t \in Terms |-> FALSE]
    /\ connsAtTerm = {}
    /\ fwdOrder = <<>>
    /\ unregOf = NoUnreg
    /\ lasPc = "idle"
    /\ listener = "nil"
    /\ lnCloses = 0
    /\ fwdSt = "off"
    /\ fwdStops = 0
    /\ nFwd = 0
    /\ fmPc = "off"
    /\ reconnectCh = NoTimer
    /\ reconnectBackoff = 0
    /\ ws = "nil"
    /\ wsClosed = FALSE
    /\ rdPc = "none"
    /\ wrPc = "none"
    /\ fDying = FALSE
    /\ fDead = FALSE
    /\ nDials = 0
    /\ nFail = 0
    /\ everConnected = FALSE
    /\ lastWait = 0
    /\ lastFrame = NoFrame
    /\ nFrames = 0
    /\ pingFlip = FALSE
    /\ rdDeadline = "none"
    /\ nOps = 0

\* ---- sending to the loop -------------------------------------------------
\* A send on an unbuffered channel of the server blocks the sender until
\* loop() receives.
Send(m) == parked' = parked \cup {m}

Blocked(t, i) == \E m \in parked : m.type = t /\ m.id = i

\* A close of termCh that wakes nobody.
Woken_Never(t, i) == FALSE

\* The goroutine is blocked in a select that has a termCh case.
Woken(t, i) == t \in TermSelectTypes /\ Blocked(t, i)

\* loop() is in its select and not in a case body.
Selecting == ~panicked /\ hubPc = "select"

\* One more call or event of the environment.
EnvStep == ~panicked /\ nOps < MaxOps /\ nOps' = nOps + 1

\* Identical callers start in the order of their numbers.
InOrder(pc, k) == pc[k] = "idle" /\ \A j \in 1..(k - 1) : pc[j] # "idle"

\* ---- operations of loop() on its data ------------------------------------

\* A name check that looks at the first record only.
IsRegistered_FirstOnly(recs, n) == recs # <<>> /\ recs[1].name = n

\* loop(), registerSensorCh case: the name check.
IsRegistered(recs, n) == HasName(recs, n)

\* An update that appends a record whether or not the name has one.
UpdateRecords_AlwaysAppend(recs, n, s) == Append(recs, [name |-> n, state |-> s])

\* An update that moves the record of the name to the end.
\* An update that keeps the updated record only.
UpdateRecords_DropOthers(recs, n, s) == <<Record(n, s)>>

UpdateRecords_MoveToEnd(recs, n, s) ==
    Append(SelectSeq(recs, LAMBDA r : r.name # n), [name |-> n, state |-> s])

\* loop(), sensorChangedCh case: update the record in place, or append one.
UpdateRecords(recs, n, s) ==
    IF HasName(recs, n)
    THEN [i \in 1..Len(recs) |->
             IF recs[i].name = n THEN Record(n, s) ELSE recs[i]]
    ELSE Append(recs, Record(n, s))

\* A check that finds the server running whether or not runningCh is closed.
running_Always(rc) == TRUE

\* Server.running: runningCh is closed.
running(rc) == rc

\* A Watch that takes any number of watchers.
WatchFails_Never(n, other) == FALSE

\* sensors/random, Sensor.Watch: ErrWatcherRegistered when the sensor has a
\* watcher, set by loop() (n of them) or by another caller.
WatchFails(n, other) == n > 0 \/ other

\* A registration that sets its watcher twice.
Watch_Twice(w, cap) == [w EXCEPT ![cap] = @ + 2]

\* loop(), registerSensorCh case: sensor.Watch sets the watcher.
Watch(w, cap) == [w EXCEPT ![cap] = @ + 1]

\* An insertion at the front of srv.sensors.
AddSensor_Prepend(recs, rec) == <<rec>> \o recs

\* loop(), registerSensorCh case: srv.sensors = append(srv.sensors, record)
AddSensor(recs, rec) == Append(recs, rec)

\* A broadcast that stops at the first connection whose write fails.
RECURSIVE broadcastSensorChange_StopOnError(_, _, _, _, _)
broadcastSensorChange_StopOnError(lg, cs, rec, seq, st) ==
    IF cs = <<>> THEN lg
    ELSE LET c == Head(cs)
             lg1 == [lg EXCEPT ![c] =
                        Append(lg[c], [name |-> rec.name, state |-> rec.state,
                                       ok |-> (st[c] = "open"), seq |-> seq])]
         IN  IF st[c] = "open"
             THEN broadcastSensorChange_StopOnError(lg1, Tail(cs), rec, seq, st)
             ELSE lg1

\* One WriteJSON call: it reaches the peer only if the connection is open.
\* seq is 0 for a replayed record and the number of the broadcast otherwise.
WriteJSON(lg, c, rec, seq, st) ==
    Append(lg, [name |-> rec.name, state |-> rec.state,
                ok |-> (st[c] = "open"), seq |-> seq])

\* broadcastSensorChange that leaves out the last connection of srv.conns.
broadcastSensorChange_SkipLast(lg, cs, rec, seq, st) ==
    [c \in Conns |->
        IF c \in SeqToSet(cs) /\ c # cs[Len(cs)]
        THEN Append(lg[c], [name |-> rec.name, state |-> rec.state,
                            ok |-> (st[c] = "open"), seq |-> seq])
        ELSE lg[c]]

\* broadcastSensorChange: one WriteJSON per connection of srv.conns.
broadcastSensorChange(lg, cs, rec, seq, st) ==
    [c \in Conns |->
        IF c \in SeqToSet(cs) THEN WriteJSON(lg[c], c, rec, seq, st)
        ELSE lg[c]]

\* sendSensorStates that stops before the last record.
sendSensorStates_DropLast(lg, c, recs, st) ==
    lg \o [i \in 1..(Len(recs) - 1) |->
              [name |-> recs[i].name, state |-> recs[i].state,
               ok |-> (st[c] = "open"), seq |-> 0]]

\* sendSensorStates: the records one by one, in the order of srv.sensors.
RECURSIVE sendSensorStates(_, _, _, _)
sendSensorStates(lg, c, recs, st) ==
    IF recs = <<>> THEN lg
    ELSE sendSensorStates(WriteJSON(lg, c, Head(recs), 0, st), c, Tail(recs), st)

\* An unregisterConnCh case that deletes nothing.
RemoveConn_Keep(cs, c) == cs

\* An unregisterConnCh case that deletes the first connection of srv.conns.
RemoveConn_First(cs, c) == IF cs = <<>> THEN cs ELSE Tail(cs)

\* loop(), unregisterConnCh case, the loop from index i on (counted from 1):
\* an element equal to the connection is cut out, and the index goes on.
RECURSIVE RemoveConnFrom(_, _, _)
RemoveConnFrom(cs, c, i) ==
    IF i > Len(cs) THEN cs
    ELSE IF cs[i] = c
    THEN RemoveConnFrom(SubSeq(cs, 1, i - 1) \o SubSeq(cs, i + 1, Len(cs)),
                        c, i + 1)
    ELSE RemoveConnFrom(cs, c, i + 1)

\* loop(), unregisterConnCh case: delete the connection from srv.conns.
RemoveConn(cs, c) == RemoveConnFrom(cs, c, 1)

\* ---- callers of the server ----------------------------------------------

\* Server.RegisterSensor: send the command, then wait for errCh.
RegisterSensor ==
    \E k \in Regs, c \in Caps :
        /\ EnvStep
        /\ InOrder(regPc, k)
        /\ regPc' = [regPc EXCEPT ![k] = "sent"]
        /\ regCap' = [regCap EXCEPT ![k] = c]
        /\ regAfterTerm' = [regAfterTerm EXCEPT ![k] = termClosed]
        /\ Send(Msg("register", k, "", ""))
        /\ UNCHANGED <<sensors, conns, hubPc, drainLeft, regRes, chanVars,
                       capVars, httpVars, chgVars, connVars, ghostVars,
                       termVars, lasVars, fwdVars>>

\* A capability changes its state; its watcher, when installed, sends
\* {Name(), State()} on sensorChangedCh.
SensorWatcher ==
    \E c \in Caps :
        /\ EnvStep
        /\ nChanges < MaxChanges
        /\ ~Blocked("changed", c)
        /\ nChanges' = nChanges + 1
        /\ capState' = [capState EXCEPT ![c] = Toggle(capState[c])]
        /\ IF capWatched[c] > 0
           THEN Send(Msg("changed", c, CapName(c), Toggle(capState[c])))
           ELSE UNCHANGED parked
        /\ UNCHANGED <<sensors, conns, hubPc, drainLeft, capWatched, capOther,
                       capPin, pinErr, irqCap, chanVars, regVars, httpVars, chgVars,
                       connVars, ghostVars, termVars, lasVars, fwdVars>>

\* sensors/rpi: the state of a pin value.
stateString(value) == IF value THEN StateHigh ELSE StateLow

\* sensors/rpi, Sensor.updateState for a pin that reads v with error ex: the
\* new state and sensorPinValue, and the results changed and err.
updateState(state, pinValue, v, ex) ==
    IF ex
    THEN [state |-> StateError, pinValue |-> pinValue, changed |-> FALSE,
          err |-> TRUE]
    ELSE [state |-> stateString(v), pinValue |-> v,
          changed |-> (v # pinValue), err |-> FALSE]

\* A sensor that runs its watcher for a changed value only.
RunWatcher_ChangedOnly(err, changed, watched) == changed /\ watched

\* sensors/rpi, Sensor.onIRQEvent: the watcher is run when there is an error
\* or the value has changed, and a watcher is set.
RunWatcher(err, changed, watched) == (err \/ changed) /\ watched

\* sensors/rpi, Sensor.onIRQEvent: the pin raises an interrupt and is read,
\* with value v and error ex; the watcher sends {Name(), State()} on
\* sensorChangedCh.
onIRQEvent ==
    \E c \in Caps, v \in BOOLEAN, ex \in BOOLEAN :
        /\ EnvStep
        /\ nChanges < MaxChanges
        /\ ~Blocked("changed", c)
        /\ nChanges' = nChanges + 1
        /\ irqCap' = c
        /\ pinErr' = [pinErr EXCEPT ![c] = ex]
        /\ LET u == updateState(capState[c], capPin[c], v, ex)
           IN  /\ capState' = [capState EXCEPT ![c] = u.state]
               /\ capPin' = [capPin EXCEPT ![c] = u.pinValue]
               /\ IF RunWatcher(u.err, u.changed, capWatched[c] > 0)
                  THEN Send(Msg("changed", c, CapName(c), u.state))
                  ELSE UNCHANGED parked
        /\ UNCHANGED <<sensors, conns, hubPc, drainLeft, capWatched, capOther,
                       chanVars, regVars, httpVars, chgVars, connVars,
                       ghostVars, termVars, lasVars, fwdVars>>

\* Forwarder.readLoop: offer a decoded event on forwardCh.
ForwarderRead ==
    \E n \in Names, s \in States :
        /\ EnvStep
        /\ fwdSt = "running"
        /\ nFwd < MaxFwd
        /\ ~Blocked("forward", nFwd)
        /\ nFwd' = nFwd + 1
        /\ Send(Msg("forward", nFwd + 1, n, s))
        /\ UNCHANGED <<sensors, conns, hubPc, drainLeft, fwdSt, fwdStops,
                       fmVars, chanVars, capVars, regVars, httpVars, chgVars,
                       connVars, ghostVars, termVars, lasVars>>

\* Server.serveSensors: select on the send to serveSensorsCh and on termCh.
serveSensors ==
    \E h \in Https :
        /\ EnvStep
        /\ InOrder(httpPc, h)
        /\ httpAfterTerm' = [httpAfterTerm EXCEPT ![h] = termClosed]
        /\ IF termClosed
           THEN /\ httpPc' = [httpPc EXCEPT ![h] = "done"]
                /\ httpRes' = [httpRes EXCEPT ![h] = "503"]
                /\ UNCHANGED parked
           ELSE /\ httpPc' = [httpPc EXCEPT ![h] = "wait"]
                /\ UNCHANGED httpRes
                /\ Send(Msg("serve", h, "", ""))
        /\ UNCHANGED <<sensors, conns, hubPc, drainLeft, httpBody, chanVars,
                       capVars, regVars, chgVars, connVars, ghostVars,
                       termVars, lasVars, fwdVars>>

\* serveSensorChanges without the terminating() check.
serveSensorChanges_NoCheck ==
    \E c \in Conns, success \in BOOLEAN :
        /\ EnvStep
        /\ InOrder(chgPc, c)
        /\ chgAfterTerm' = [chgAfterTerm EXCEPT ![c] = termClosed]
        /\ IF success
           THEN /\ chgPc' = [chgPc EXCEPT ![c] = "register"]
                /\ chgRes' = [chgRes EXCEPT ![c] = "101"]
                /\ connSt' = [connSt EXCEPT ![c] = "open"]
           ELSE /\ chgPc' = [chgPc EXCEPT ![c] = "done"]
                /\ chgRes' = [chgRes EXCEPT ![c] = "400"]
                /\ UNCHANGED connSt
        /\ UNCHANGED <<hubVars, chanVars, capVars, regVars, httpVars,
                       hubClosed, readerPc, log, replayOf, ghostVars,
                       termVars, lasVars, fwdVars>>

\* Server.serveSensorChanges: the terminating() check, then
\* upgrader.Upgrade, which succeeds or fails.
serveSensorChanges ==
    \E c \in Conns, success \in BOOLEAN :
        /\ EnvStep
        /\ InOrder(chgPc, c)
        /\ chgAfterTerm' = [chgAfterTerm EXCEPT ![c] = termClosed]
        /\ IF termClosed
           THEN /\ chgPc' = [chgPc EXCEPT ![c] = "done"]
                /\ chgRes' = [chgRes EXCEPT ![c] = "503"]
                /\ UNCHANGED connSt
           ELSE IF success
           THEN /\ chgPc' = [chgPc EXCEPT ![c] = "register"]
                /\ chgRes' = [chgRes EXCEPT ![c] = "101"]
                /\ connSt' = [connSt EXCEPT ![c] = "open"]
           ELSE /\ chgPc' = [chgPc EXCEPT ![c] = "done"]
                /\ chgRes' = [chgRes EXCEPT ![c] = "400"]
                /\ UNCHANGED connSt
        /\ UNCHANGED <<hubVars, chanVars, capVars, regVars, httpVars,
                       hubClosed, readerPc, log, replayOf, ghostVars,
                       termVars, lasVars, fwdVars>>

\* Server.serveSensorChanges: select on the send to registerConnCh and on
\* termCh; the termCh case closes the connection.
serveSensorChanges_register ==
    \E c \in Conns :
        /\ ~panicked
        /\ chgPc[c] = "register"
        /\ IF termClosed
           THEN /\ chgPc' = [chgPc EXCEPT ![c] = "done"]
                /\ connSt' = [connSt EXCEPT ![c] = "closed"]
                /\ UNCHANGED parked
           ELSE /\ chgPc' = [chgPc EXCEPT ![c] = "sent"]
                /\ UNCHANGED connSt
                /\ Send(Msg("regconn", c, "", ""))
        /\ UNCHANGED <<sensors, conns, hubPc, drainLeft, chanVars, capVars,
                       regVars, httpVars, chgRes, chgAfterTerm, hubClosed,
                       readerPc, log, replayOf, ghostVars, termVars, lasVars,
                       fwdVars, envVars>>

\* The peer closes the connection, or the transport fails.
ConnFail ==
    \E c \in Conns :
        /\ EnvStep
        /\ connSt[c] = "open"
        /\ connSt' = [connSt EXCEPT ![c] = "closed"]
        /\ UNCHANGED <<hubVars, chanVars, capVars, regVars, httpVars,
                       chgVars, hubClosed, readerPc, log, replayOf,
                       ghostVars, termVars, lasVars, fwdVars>>

\* The reader goroutine of a connection: NextReader fails, the connection is
\* sent on unregisterConnCh.
ConnReader ==
    \E c \in Conns :
        /\ ~panicked
        /\ readerPc[c] = "reading"
        /\ connSt[c] = "closed"
        /\ readerPc' = [readerPc EXCEPT ![c] = "sent"]
        /\ Send(Msg("unreg", c, "", ""))
        /\ UNCHANGED <<sensors, conns, hubPc, drainLeft, chanVars, capVars,
                       regVars, httpVars, chgVars, connSt, hubClosed, log,
                       replayOf, ghostVars, termVars, lasVars, fwdVars, envVars>>


\* ---- loop() --------------------------------------------------------------

\* loop(), case cmd := <-srv.registerSensorCh
loop_registerSensorCh ==
    \E m \in parked :
        /\ Selecting
        /\ m.type = "register"
        /\ parked' = parked \ {m}
        /\ LET k == m.id
               cap == regCap[k]
               record == Record(CapName(cap), capState[cap])
           IN  IF IsRegistered(sensors, CapName(cap))
               THEN /\ regRes' = [regRes EXCEPT ![k] = "ErrRegistered"]
                    /\ UNCHANGED <<sensors, capWatched, log, nBcast, regOrder>>
               ELSE IF WatchFails(capWatched[cap], capOther[cap])
               THEN /\ regRes' = [regRes EXCEPT ![k] = "ErrWatch"]
                    /\ UNCHANGED <<sensors, capWatched, log, nBcast, regOrder>>
               ELSE /\ capWatched' = Watch(capWatched, cap)
                    /\ sensors' = AddSensor(sensors, record)
                    /\ regRes' = [regRes EXCEPT ![k] = "ok"]
                    /\ regOrder' = Append(regOrder, record)
                    /\ IF running(runningClosed)
                       THEN /\ log' = broadcastSensorChange(log, conns, record,
                                                            nBcast + 1, connSt)
                            /\ nBcast' = nBcast + 1
                       ELSE UNCHANGED <<log, nBcast>>
        /\ regPc' = [regPc EXCEPT ![m.id] = "done"]
        /\ UNCHANGED <<conns, hubPc, drainLeft, chanVars, capState, capOther,
                       nChanges, capPin, pinErr, irqCap, regCap, regAfterTerm, httpVars,
                       chgVars, connSt, hubClosed, readerPc, replayOf,
                       nChangedHandled, connsAtTerm, fwdOrder, unregOf,
                       termVars, lasVars, fwdVars, envVars>>

\* loop(), case conn := <-srv.registerConnCh
loop_registerConnCh ==
    \E m \in parked :
        /\ Selecting
        /\ m.type = "regconn"
        /\ parked' = parked \ {m}
        /\ conns' = Append(conns, m.id)
        /\ log' = [log EXCEPT ![m.id] =
                      sendSensorStates(log[m.id], m.id, sensors, connSt)]
        /\ replayOf' = [replayOf EXCEPT ![m.id] = sensors]
        /\ readerPc' = [readerPc EXCEPT ![m.id] = "reading"]
        /\ chgPc' = [chgPc EXCEPT ![m.id] = "done"]
        /\ UNCHANGED <<sensors, hubPc, drainLeft, chanVars, capVars, regVars,
                       httpVars, chgRes, chgAfterTerm, connSt, hubClosed,
                       ghostVars, termVars, lasVars, fwdVars, envVars>>

\* loop(), case conn := <-srv.unregisterConnCh
loop_unregisterConnCh ==
    \E m \in parked :
        /\ Selecting
        /\ m.type = "unreg"
        /\ parked' = parked \ {m}
        /\ conns' = RemoveConn(conns, m.id)
        /\ unregOf' = [conn |-> m.id, before |-> conns]
        /\ UNCHANGED <<sensors, hubPc, drainLeft, chanVars, capVars, regVars,
                       httpVars, chgVars, connVars, nBcast, regOrder,
                       nChangedHandled, connsAtTerm, fwdOrder, termVars,
                       lasVars, fwdVars, envVars>>

\* loop(), case sensor := <-srv.sensorChangedCh (sent by a watcher or by the
\* goroutine of the forwardCh case)
loop_sensorChangedCh ==
    \E m \in parked :
        /\ Selecting
        /\ m.type \in {"changed", "fwdgo"}
        /\ parked' = parked \ {m}
        /\ LET sensor == Record(m.name, m.state)
           IN  /\ sensors' = UpdateRecords(sensors, sensor.name, sensor.state)
               /\ log' = broadcastSensorChange(log, conns, sensor,
                                               nBcast + 1, connSt)
        /\ nBcast' = nBcast + 1
        /\ nChangedHandled' = nChangedHandled + 1
        /\ fwdOrder' = IF m.type = "fwdgo" THEN Append(fwdOrder, m.id)
                       ELSE fwdOrder
        /\ UNCHANGED <<conns, hubPc, drainLeft, chanVars, capVars, regVars,
                       httpVars, chgVars, connSt, hubClosed, readerPc,
                       replayOf, regOrder, connsAtTerm, unregOf, termVars,
                       lasVars, fwdVars, envVars>>

\* A forwardCh case that starts no goroutine.
forwardGo_Drop(m, tc) == {}

\* loop(), forwardCh case: the goroutine that selects on the send of the
\* event to sensorChangedCh and on termCh.
forwardGo(m, tc) ==
    IF tc THEN {} ELSE {Msg("fwdgo", m.id, m.name, m.state)}

\* loop(), case sensor := <-srv.forwardCh: a goroutine selects on the send to
\* sensorChangedCh and on termCh.
loop_forwardCh ==
    \E m \in parked :
        /\ Selecting
        /\ m.type = "forward"
        /\ parked' = (parked \ {m}) \cup forwardGo(m, termClosed)
        /\ UNCHANGED <<sensors, conns, hubPc, drainLeft, chanVars, capVars,
                       regVars, httpVars, chgVars, connVars, ghostVars,
                       termVars, lasVars, fwdVars, envVars>>

\* loop(), case cmd := <-srv.serveSensorsCh
loop_serveSensorsCh ==
    \E m \in parked :
        /\ Selecting
        /\ m.type = "serve"
        /\ parked' = parked \ {m}
        /\ httpBody' = [httpBody EXCEPT ![m.id] = sensors]
        /\ httpRes' = [httpRes EXCEPT ![m.id] = "200"]
        /\ httpPc' = [httpPc EXCEPT ![m.id] = "done"]
        /\ UNCHANGED <<sensors, conns, hubPc, drainLeft, chanVars, capVars,
                       regVars, httpAfterTerm, chgVars, connVars, ghostVars,
                       termVars, lasVars, fwdVars, envVars>>

\* A wait loop that stops one receive early.
DrainCount_OneLess(cs) == IF Len(cs) = 0 THEN 0 ELSE Len(cs) - 1

\* The number of receives of `for range srv.conns { <-srv.unregisterConnCh }`.
DrainCount(cs) == Len(cs)

\* loop(), case <-srv.termCh: close the connections, then wait for one
\* message on unregisterConnCh per connection; close(srv.termAckCh) when
\* there is nothing to wait for.
loop_termCh ==
    /\ Selecting
    /\ termClosed
    /\ connSt' = [c \in Conns |->
                    IF c \in SeqToSet(conns) THEN "closed" ELSE connSt[c]]
    /\ hubClosed' = [c \in Conns |->
                    IF c \in SeqToSet(conns) THEN hubClosed[c] + 1
                    ELSE hubClosed[c]]
    /\ connsAtTerm' = SeqToSet(conns)
    /\ drainLeft' = DrainCount(conns)
    /\ IF DrainCount(conns) = 0
       THEN hubPc' = "exited" /\ termAckClosed' = TRUE
       ELSE hubPc' = "drain" /\ UNCHANGED termAckClosed
    /\ UNCHANGED <<sensors, conns, parked, runningClosed, termClosed,
                   panicked, capVars, regVars, httpVars, chgVars, readerPc,
                   log, replayOf, nBcast, regOrder, nChangedHandled,
                   fwdOrder, unregOf, termVars,
                   lasVars, fwdVars, envVars>>

\* loop(), termCh case: one receive of the wait loop; after the last one
\* close(srv.termAckCh) and return.
loop_termCh_wait ==
    \E m \in parked :
        /\ ~panicked
        /\ hubPc = "drain"
        /\ m.type = "unreg"
        /\ parked' = parked \ {m}
        /\ drainLeft' = drainLeft - 1
        /\ IF drainLeft = 1
           THEN hubPc' = "exited" /\ termAckClosed' = TRUE
           ELSE UNCHANGED <<hubPc, termAckClosed>>
        /\ UNCHANGED <<sensors, conns, runningClosed, termClosed, panicked,
                       capVars, regVars, httpVars, chgVars, connVars,
                       ghostVars, termVars, lasVars, fwdVars, envVars>>

\* ---- Terminate -----------------------------------------------------------

\* A select without the termCh case.
TerminateSelect_NoTermCh(tc, tac) ==
    IF tac THEN {"ErrTerminated"} ELSE {"default"}

\* Server.Terminate, the select: the cases that are ready.
TerminateSelect(tc, tac) ==
    IF tc \/ tac
    THEN (IF tc THEN {"ErrTerminating"} ELSE {}) \cup
         (IF tac THEN {"ErrTerminated"} ELSE {})
    ELSE {"default"}

\* Server.Terminate: make sure we are not terminating already.
Terminate ==
    \E t \in Terms :
        /\ EnvStep
        /\ InOrder(tPc, t)
        /\ tAfterTerm' = [tAfterTerm EXCEPT ![t] = termClosed]
        /\ \E r \in TerminateSelect(termClosed, termAckClosed) :
              IF r = "default"
              THEN /\ tPc' = [tPc EXCEPT ![t] = "close"]
                   /\ UNCHANGED tRes
              ELSE /\ tPc' = [tPc EXCEPT ![t] = "done"]
                   /\ tRes' = [tRes EXCEPT ![t] = r]
        /\ UNCHANGED <<hubVars, chanVars, capVars, regVars, httpVars,
                       chgVars, connVars, ghostVars, lasVars, fwdVars>>

\* Server.Terminate: close(srv.termCh).  Closing a closed channel panics.
\* The close wakes every goroutine blocked in a select with a termCh case:
\* serveSensors answers 503, serveSensorChanges closes its connection.
Terminate_close ==
    \E t \in Terms :
        /\ ~panicked
        /\ tPc[t] = "close"
        /\ tPc' = [tPc EXCEPT ![t] = "waitAck"]
        /\ IF termClosed
           THEN /\ panicked' = TRUE
                /\ UNCHANGED <<termClosed, parked, httpPc, httpRes, chgPc,
                               connSt>>
           ELSE /\ termClosed' = TRUE
                /\ UNCHANGED panicked
                /\ parked' = {m \in parked : m.type \notin TermSelectTypes}
                /\ httpPc' = [h \in Https |->
                                IF Woken("serve", h) THEN "done" ELSE httpPc[h]]
                /\ httpRes' = [h \in Https |->
                                IF Woken("serve", h) THEN "503" ELSE httpRes[h]]
                /\ chgPc' = [c \in Conns |->
                                IF Woken("regconn", c) THEN "done" ELSE chgPc[c]]
                /\ connSt' = [c \in Conns |->
                                IF Woken("regconn", c) THEN "closed"
                                ELSE connSt[c]]
        /\ UNCHANGED <<sensors, conns, hubPc, drainLeft, runningClosed,
                       termAckClosed, capVars, regVars, httpBody,
                       httpAfterTerm, chgRes, chgAfterTerm, hubClosed,
                       readerPc, log, replayOf, ghostVars, tRes, tAfterTerm,
                       lasVars, fwdVars, envVars>>

\* Server.Terminate: <-srv.termAckCh
Terminate_waitAck ==
    \E t \in Terms :
        /\ ~panicked
        /\ tPc[t] = "waitAck"
        /\ termAckClosed
        /\ tPc' = [tPc EXCEPT ![t] = "stopFwd"]
        /\ UNCHANGED <<hubVars, chanVars, capVars, regVars, httpVars,
                       chgVars, connVars, ghostVars, tRes, tAfterTerm,
                       lasVars, fwdVars, envVars>>

\* Server.Terminate: stop the forwarders in srv.forwarders and wait for them;
\* a reader blocked on forwardCh returns.
Terminate_stopForwarders ==
    \E t \in Terms :
        /\ ~panicked
        /\ tPc[t] = "stopFwd"
        /\ tPc' = [tPc EXCEPT ![t] = "closeLn"]
        /\ IF fwdSt = "running"
           THEN /\ fwdSt' = "dead"
                /\ fwdStops' = fwdStops + 1
                /\ parked' = {m \in parked : m.type # "forward"}
           ELSE UNCHANGED <<fwdSt, fwdStops, parked>>
        /\ UNCHANGED <<sensors, conns, hubPc, drainLeft, chanVars, capVars,
                       regVars, httpVars, chgVars, connVars, ghostVars, tRes,
                       tAfterTerm, lasVars, nFwd, fmVars, envVars>>

\* Server.Terminate: close the listener unless it is unset.
Terminate_closeListener ==
    \E t \in Terms :
        /\ ~panicked
        /\ tPc[t] = "closeLn"
        /\ tPc' = [tPc EXCEPT ![t] = "done"]
        /\ tRes' = [tRes EXCEPT ![t] = "nil"]
        /\ IF listener # "nil"
           THEN listener' = "closed" /\ lnCloses' = lnCloses + 1
           ELSE UNCHANGED <<listener, lnCloses>>
        /\ UNCHANGED <<hubVars, chanVars, capVars, regVars, httpVars,
                       chgVars, connVars, ghostVars, tAfterTerm, lasPc,
                       fwdVars, envVars>>

\* ---- ListenAndServe ------------------------------------------------------

\* Server.ListenAndServe: mark the server as running.
ListenAndServe ==
    /\ EnvStep
    /\ lasPc = "idle"
    /\ IF runningClosed
       THEN lasPc' = "done" /\ UNCHANGED runningClosed
       ELSE lasPc' = "listen" /\ runningClosed' = TRUE
    /\ UNCHANGED <<hubVars, termClosed, termAckClosed, panicked, capVars,
                   regVars, httpVars, chgVars, connVars, ghostVars, termVars,
                   listener, lnCloses, fwdVars>>

\* Server.ListenAndServe: net.Listen succeeds or fails.
ListenAndServe_listen ==
    \E success \in BOOLEAN :
        /\ ~panicked
        /\ lasPc = "listen"
        /\ IF success
           THEN lasPc' = "forward" /\ listener' = "open"
           ELSE lasPc' = "done" /\ UNCHANGED listener
        /\ UNCHANGED <<hubVars, chanVars, capVars, regVars, httpVars,
                       chgVars, connVars, ghostVars, termVars, lnCloses,
                       fwdVars, envVars>>

\* Server.ListenAndServe: start the forwarding goroutines.
ListenAndServe_forward ==
    /\ ~panicked
    /\ lasPc = "forward"
    /\ lasPc' = "serve"
    /\ fwdSt' = "running"
    /\ UNCHANGED <<hubVars, chanVars, capVars, regVars, httpVars, chgVars,
                   connVars, ghostVars, termVars, listener, lnCloses,
                   fwdStops, nFwd, fmVars, envVars>>

\* Server.ListenAndServe: http.Serve returns once the listener is closed.
ListenAndServe_serve ==
    /\ ~panicked
    /\ lasPc = "serve"
    /\ listener = "closed"
    /\ lasPc' = "done"
    /\ UNCHANGED <<hubVars, chanVars, capVars, regVars, httpVars, chgVars,
                   connVars, ghostVars, termVars, listener, lnCloses,
                   fwdVars, envVars>>

\* ---- the forwarder -------------------------------------------------------

\* Everything but the variables of the forwarder.
absFwdVars == <<fwdSt, fwdStops, nFwd>>
srvVars == <<hubVars, chanVars, capVars, regVars, httpVars, chgVars,
             connVars, ghostVars, termVars, lasVars, envVars>>

\* An event of the environment of the forwarder (a connection that is
\* established, a message, a failure of the transport) counts as one of the
\* MaxOps events; a step that follows from a step of the program is free.
EnvIf(counted) ==
    IF counted THEN nOps < MaxOps /\ nOps' = nOps + 1 ELSE UNCHANGED nOps

minDuration(a, b) == IF a < b THEN a ELSE b

\* A backoff that doubles without a limit.
NextBackoff_NoCap(b) == 2 * b

\* reconnectWithBackoff: the backoff after the one that is being waited for.
NextBackoff(b) == minDuration(2 * b, maxReconnectBackoff)

\* A pair of workers that counts as dead as soon as one of them returned.
WorkersDead_Any(r, w) == r = "done" \/ w = "done"

\* workerTomb.Dead() is closed: readLoop and writeLoop have both returned.
\* The channel of the zero Tomb, before the first connection, is open.
WorkersDead(r, w) == r = "done" /\ w = "done"

\* readLoop: json Decode of the payload into an event.  A JSON object
\* decodes without an error, the fields it lacks stay empty.
Decode(f) ==
    IF f.kind = "garbage" THEN [ok |-> FALSE, name |-> "", state |-> ""]
    ELSE [ok |-> TRUE, name |-> f.name, state |-> f.state]

\* connectionManager, case <-reconnectCh: the timer has fired.  A timer of
\* more than 0 seconds is not ready when the select is entered, so the select
\* takes the workerTomb.Dead() case when that channel is closed.
fm_reconnectCh ==
    /\ ~panicked
    /\ fmPc = "select"
    /\ reconnectCh # NoTimer
    /\ reconnectCh = 0 \/ ~WorkersDead(rdPc, wrPc)
    /\ nDials < MaxDials
    /\ fmPc' = "dial"
    /\ lastWait' = reconnectCh
    /\ reconnectCh' = NoTimer
    /\ nDials' = nDials + 1
    /\ UNCHANGED <<srvVars, absFwdVars, reconnectBackoff, ws, wsClosed, rdPc,
                   wrPc, fDying, fDead, nFail, everConnected, lastFrame,
                   nFrames, pingFlip, rdDeadline>>

\* connectionManager: dialer.Dial fails (reconnectWithBackoff) or succeeds
\* (reconnectCh = nil, a new workerTomb with readLoop and writeLoop).
\* readLoop sets the read deadline of the new connection before it reads.
fm_dial ==
    \E success \in BOOLEAN :
        /\ ~panicked
        /\ fmPc = "dial"
        /\ fmPc' = "select"
        /\ EnvIf(success)
        /\ IF success
           THEN /\ ws' = "conn"
                /\ wsClosed' = FALSE
                /\ reconnectCh' = NoTimer
                /\ rdPc' = "read"
                /\ wrPc' = "wait"
                /\ nFail' = 0
                /\ everConnected' = TRUE
                /\ rdDeadline' = "fresh"
                /\ UNCHANGED reconnectBackoff
           ELSE /\ reconnectCh' = reconnectBackoff
                /\ reconnectBackoff' = NextBackoff(reconnectBackoff)
                /\ nFail' = nFail + 1
                /\ UNCHANGED <<ws, wsClosed, rdPc, wrPc, everConnected,
                               rdDeadline>>
        /\ UNCHANGED <<hubVars, chanVars, capVars, regVars, httpVars,
                       chgVars, connVars, ghostVars, termVars, lasVars,
                       absFwdVars, fDying, fDead, nDials, lastWait,
                       lastFrame, nFrames, pingFlip>>

\* connectionManager, case <-workerTomb.Dead(): reconnectNow.  The
\* connection is given up, and its read deadline with it.
fm_workersDead ==
    /\ ~panicked
    /\ fmPc = "select"
    /\ WorkersDead(rdPc, wrPc)
    /\ reconnectCh' = 0
    /\ reconnectBackoff' = initialReconnectBackoff
    /\ rdDeadline' = "none"
    /\ UNCHANGED <<srvVars, absFwdVars, fmPc, ws, wsClosed, rdPc, wrPc,
                   fDying, fDead, nDials, nFail, everConnected, lastWait,
                   lastFrame, nFrames, pingFlip>>

\* connectionManager, case <-forwarder.t.Dying(): write a CLOSE message and
\* Close() forwarder.ws, which is a nil pointer before the first connection.
fm_dying ==
    /\ ~panicked
    /\ fmPc = "select"
    /\ fDying
    /\ IF ws = "nil"
       THEN /\ fmPc' = "panicked"
            /\ panicked' = TRUE
            /\ UNCHANGED wsClosed
       ELSE /\ fmPc' = "wait"
            /\ wsClosed' = TRUE
            /\ UNCHANGED panicked
    /\ UNCHANGED <<hubVars, runningClosed, termClosed, termAckClosed, capVars,
                   regVars, httpVars, chgVars, connVars, ghostVars, termVars,
                   lasVars, envVars, absFwdVars, reconnectCh,
                   reconnectBackoff, ws, rdPc, wrPc, fDying, fDead, nDials,
                   nFail, everConnected, lastWait, lastFrame, nFrames,
                   pingFlip, rdDeadline>>

\* connectionManager: workerTomb.Wait(), then return; forwarder.t is dead.
fm_wait ==
    /\ ~panicked
    /\ fmPc = "wait"
    /\ WorkersDead(rdPc, wrPc)
    /\ fmPc' = "exited"
    /\ fDead' = TRUE
    /\ fwdSt' = "dead"
    /\ UNCHANGED <<srvVars, fwdStops, nFwd, reconnectCh, reconnectBackoff, ws,
                   wsClosed, rdPc, wrPc, fDying, nDials, nFail, everConnected,
                   lastWait, lastFrame, nFrames, pingFlip, rdDeadline>>

\* The reader is blocked in its select on the send to forwardCh.
Forwarding == \E m \in parked : m.type = "forward"

\* readLoop: ReadMessage returns a message.  A message that is not a text
\* message or does not decode is dropped; an event is offered on forwardCh
\* in a select with forwarder.t.Dying().
fr_read ==
    \E f \in Frames :
        /\ ~panicked
        /\ rdPc = "read"
        /\ ~wsClosed
        /\ ~Forwarding
        /\ nFrames < MaxFrames
        /\ EnvIf(TRUE)
        /\ nFrames' = nFrames + 1
        /\ lastFrame' = f
        /\ IF f.kind = "binary" \/ ~Decode(f).ok
           THEN UNCHANGED <<parked, rdPc, nFwd>>
           ELSE IF fDying
           THEN /\ rdPc' = "done"
                /\ UNCHANGED <<parked, nFwd>>
           ELSE /\ Send(Msg("forward", nFwd + 1, Decode(f).name,
                            Decode(f).state))
                /\ nFwd' = nFwd + 1
                /\ UNCHANGED rdPc
        /\ UNCHANGED <<sensors, conns, hubPc, drainLeft, chanVars, capVars,
                       regVars, httpVars, chgVars, connVars, ghostVars,
                       termVars, lasVars, fwdSt, fwdStops, fmPc,
                       reconnectCh, reconnectBackoff, ws, wsClosed, wrPc,
                       fDying, fDead, nDials, nFail, everConnected, lastWait,
                       pingFlip, rdDeadline>>

\* The read deadline has passed: pongTimeout is longer than pingPeriod, so
\* a PING was written since the deadline was set, unless writeLoop has
\* returned.
DeadlinePassed(dl, wr) == dl = "due" \/ (wr = "done" /\ dl = "fresh")

\* readLoop: ReadMessage returns an error and readLoop returns.  The cause
\* is the read deadline that passed, or another error: the peer closed the
\* connection, the transport failed, or forwarder.ws was closed.  Once
\* writeLoop has returned no PING is sent, no PONG extends the read
\* deadline, and the read fails by itself.
fr_readFail ==
    \E cause \in {"deadline", "error"} :
        /\ ~panicked
        /\ rdPc = "read"
        /\ ~Forwarding
        /\ IF cause = "deadline"
           THEN ~wsClosed /\ DeadlinePassed(rdDeadline, wrPc)
           ELSE wsClosed \/ wrPc # "done"
        /\ EnvIf(~wsClosed /\ wrPc # "done")
        /\ rdPc' = "done"
        /\ rdDeadline' = IF cause = "deadline" THEN "expired" ELSE rdDeadline
        /\ UNCHANGED <<hubVars, chanVars, capVars, regVars, httpVars,
                       chgVars, connVars, ghostVars, termVars, lasVars,
                       absFwdVars, fmPc, reconnectCh, reconnectBackoff, ws,
                       wsClosed, wrPc, fDying, fDead, nDials, nFail,
                       everConnected, lastWait, lastFrame, nFrames,
                       pingFlip>>

\* readLoop, the pong handler: ReadMessage sees the PONG that answers a PING
\* and the handler sets the read deadline anew.
fr_pong ==
    /\ ~panicked
    /\ rdPc = "read"
    /\ ~Forwarding
    /\ ~wsClosed
    /\ rdDeadline = "due"
    /\ EnvIf(TRUE)
    /\ rdDeadline' = "fresh"
    /\ UNCHANGED <<hubVars, chanVars, capVars, regVars, httpVars, chgVars,
                   connVars, ghostVars, termVars, lasVars, absFwdVars, fmPc,
                   reconnectCh, reconnectBackoff, ws, wsClosed, rdPc, wrPc,
                   fDying, fDead, nDials, nFail, everConnected, lastWait,
                   lastFrame, nFrames, pingFlip>>

\* writeLoop, case <-ticker.C: the PING is written, or the write fails and
\* writeLoop returns.  A write on a closed connection fails.
fw_tick ==
    \E success \in BOOLEAN :
        /\ ~panicked
        /\ wrPc = "wait"
        /\ wsClosed => ~success
        /\ EnvIf(~success /\ ~wsClosed)
        /\ wrPc' = IF success THEN "wait" ELSE "done"
        /\ pingFlip' = IF success THEN ~pingFlip ELSE pingFlip
        /\ rdDeadline' = IF success /\ rdDeadline = "fresh" THEN "due"
                         ELSE rdDeadline
        /\ UNCHANGED <<hubVars, chanVars, capVars, regVars, httpVars,
                       chgVars, connVars, ghostVars, termVars, lasVars,
                       absFwdVars, fmPc, reconnectCh,
                       reconnectBackoff, ws, wsClosed, rdPc, fDying, fDead,
                       nDials, nFail, everConnected, lastWait, lastFrame,
                       nFrames>>

\* writeLoop, case <-forwarder.t.Dying()
fw_dying ==
    /\ ~panicked
    /\ wrPc = "wait"
    /\ fDying
    /\ wrPc' = "done"
    /\ UNCHANGED <<srvVars, absFwdVars, fmPc, reconnectCh, reconnectBackoff,
                   ws, wsClosed, rdPc, fDying, fDead, nDials, nFail,
                   everConnected, lastWait, lastFrame, nFrames, pingFlip, rdDeadline>>

\* Server.Terminate: forwarder.Stop().  A reader blocked in its select on
\* forwardCh takes the Dying case and returns.
Terminate_Stop ==
    \E t \in Terms :
        /\ ~panicked
        /\ tPc[t] = "stopFwd"
        /\ fmPc # "off"
        /\ tPc' = [tPc EXCEPT ![t] = "waitDead"]
        /\ fDying' = TRUE
        /\ fwdStops' = fwdStops + 1
        /\ parked' = {m \in parked : m.type # "forward"}
        /\ rdPc' = IF Forwarding THEN "done" ELSE rdPc
        /\ UNCHANGED <<sensors, conns, hubPc, drainLeft, chanVars, capVars,
                       regVars, httpVars, chgVars, connVars, ghostVars, tRes,
                       tAfterTerm, lasVars, envVars, fwdSt, nFwd, fmPc,
                       reconnectCh, reconnectBackoff, ws, wsClosed, wrPc,
                       fDead, nDials, nFail, everConnected, lastWait,
                       lastFrame, nFrames, pingFlip, rdDeadline>>

\* Server.Terminate: <-forwarder.Dead()
Terminate_Dead ==
    \E t \in Terms :
        /\ ~panicked
        /\ tPc[t] = "waitDead"
        /\ fDead
        /\ tPc' = [tPc EXCEPT ![t] = "closeLn"]
        /\ UNCHANGED <<hubVars, chanVars, capVars, regVars, httpVars,
                       chgVars, connVars, ghostVars, tRes, tAfterTerm,
                       lasVars, envVars, fwdVars>>

\* The server after ListenAndServe has started its forwarder: Forward has
\* started connectionManager, which has called reconnectNow.
InitFwd ==
    /\ sensors = <<>>
    /\ conns = <<>>
    /\ hubPc = "select"
    /\ drainLeft = 0
    /\ parked = {}
    /\ runningClosed = TRUE
    /\ termClosed = FALSE
    /\ termAckClosed = FALSE
    /\ panicked = FALSE
    /\ capState = [c \in Caps |-> StateLow]
    /\ capWatched = [c \in Caps |-> 0]
    /\ capOther = [c \in Caps |-> FALSE]
    /\ nChanges = 0
    /\ capPin = [c \in Caps |-> FALSE]
    /\ pinErr = [c \in Caps |-> FALSE]
    /\ irqCap = 0
    /\ regPc = [k \in Regs |-> "idle"]
    /\ regCap = [k \in Regs |-> 1]
    /\ regRes = [k \in Regs |-> "none"]
    /\ regAfterTerm = [k \in Regs |-> FALSE]
    /\ httpPc = [h \in Https |-> "idle"]
    /\ httpRes = [h \in Https |-> "none"]
    /\ httpBody = [h \in Https |-> <<>>]
    /\ httpAfterTerm = [h \in Https |-> FALSE]
    /\ chgPc = [c \in Conns |-> "idle"]
    /\ chgRes = [c \in Conns |-> "none"]
    /\ chgAfterTerm = [c \in Conns |-> FALSE]
    /\ connSt = [c \in Conns |-> "none"]
    /\ hubClosed = [c \in Conns |-> 0]
    /\ readerPc = [c \in Conns |-> "none"]
    /\ log = [c \in Conns |-> <<>>]
    /\ replayOf = [c \in Conns |-> <<>>]
    /\ nBcast = 0
    /\ regOrder = <<>>
    /\ nChangedHandled = 0
    /\ tPc = [t \in Terms |-> "idle"]
    /\ tRes = [t \in Terms |-> "none"]
    /\ tAfterTerm = [t \in Terms |-> FALSE]
    /\ connsAtTerm = {}
    /\ fwdOrder = <<>>
    /\ unregOf = NoUnreg
    /\ lasPc = "serve"
    /\ listener = "open"
    /\ lnCloses = 0
    /\ fwdSt = "running"
    /\ fwdStops = 0
    /\ nFwd = 0
    /\ fmPc = "select"
    /\ reconnectCh = 0
    /\ reconnectBackoff = initialReconnectBackoff
    /\ ws = "nil"
    /\ wsClosed = FALSE
    /\ rdPc = "none"
    /\ wrPc = "none"
    /\ fDying = FALSE
    /\ fDead = FALSE
    /\ nDials = 0
    /\ nFail = 0
    /\ everConnected = FALSE
    /\ lastWait = 0
    /\ lastFrame = NoFrame
    /\ nFrames = 0
    /\ pingFlip = FALSE
    /\ rdDeadline = "none"
    /\ nOps = 0

NextFwd ==
    \/ fm_reconnectCh
    \/ fm_dial
    \/ fm_workersDead
    \/ fm_dying
    \/ fm_wait
    \/ fr_read
    \/ fr_readFail
    \/ fr_pong
    \/ fw_tick
    \/ fw_dying
    \/ loop_forwardCh
    \/ loop_sensorChangedCh
    \/ loop_termCh
    \/ Terminate
    \/ Terminate_close
    \/ Terminate_waitAck
    \/ Terminate_Stop
    \/ Terminate_Dead
    \/ Terminate_closeListener
    \/ ListenAndServe_serve

SpecFwd == InitFwd /\ [][NextFwd]_vars

\* The steps of the three goroutines of the forwarder.
ForwarderStep ==
    \/ fm_reconnectCh
    \/ fm_dial
    \/ fm_workersDead
    \/ fm_dying
    \/ fm_wait
    \/ fr_read
    \/ fr_readFail
    \/ fr_pong
    \/ fw_tick
    \/ fw_dying

\* Scheduling: a goroutine that can take a step takes it, the ticker of
\* writeLoop keeps ticking, a read on a closed or no longer probed connection
\* fails, and a select whose Dying case is ready again and again takes it.
FairFwd ==
    /\ WF_vars(fm_reconnectCh)
    /\ WF_vars(fm_dial)
    /\ WF_vars(fm_workersDead)
    /\ SF_vars(fm_dying)
    /\ WF_vars(fm_wait)
    /\ WF_vars(fr_readFail /\ (wsClosed \/ wrPc = "done"))
    /\ WF_vars(fw_tick)
    /\ SF_vars(fw_dying)
    /\ WF_vars(loop_forwardCh)
    /\ WF_vars(loop_sensorChangedCh)
    /\ WF_vars(loop_termCh)
    /\ WF_vars(Terminate_close)
    /\ WF_vars(Terminate_waitAck)
    /\ WF_vars(Terminate_Stop)
    /\ WF_vars(Terminate_Dead)
    /\ WF_vars(Terminate_closeListener)

SpecFwdFair == SpecFwd /\ FairFwd

\* ---- specification -------------------------------------------------------
Next ==
    \/ RegisterSensor
    \/ SensorWatcher
    \/ ForwarderRead
    \/ serveSensors
    \/ serveSensorChanges
    \/ serveSensorChanges_register
    \/ ConnFail
    \/ ConnReader
    \/ loop_registerSensorCh
    \/ loop_registerConnCh
    \/ loop_unregisterConnCh
    \/ loop_sensorChangedCh
    \/ loop_forwardCh
    \/ loop_serveSensorsCh
    \/ loop_termCh
    \/ loop_termCh_wait
    \/ Terminate
    \/ Terminate_close
    \/ Terminate_waitAck
    \/ Terminate_stopForwarders
    \/ Terminate_closeListener
    \/ ListenAndServe
    \/ ListenAndServe_listen
    \/ ListenAndServe_forward
    \/ ListenAndServe_serve

Spec == Init /\ [][Next]_vars

\* Scheduling: loop() and the goroutines of Terminate and ListenAndServe take
\* the steps they can take, and a select of loop() with a sender waiting on
\* one of its channels receives from it.
FairHub ==
    /\ WF_vars(loop_registerSensorCh)
    /\ WF_vars(loop_registerConnCh)
    /\ WF_vars(loop_unregisterConnCh)
    /\ WF_vars(loop_sensorChangedCh)
    /\ WF_vars(loop_forwardCh)
    /\ WF_vars(loop_serveSensorsCh)
    /\ WF_vars(loop_termCh)
    /\ WF_vars(loop_termCh_wait)
    /\ WF_vars(ConnReader)
    /\ WF_vars(serveSensorChanges_register)
    /\ WF_vars(Terminate_close)
    /\ WF_vars(Terminate_waitAck)
    /\ WF_vars(Terminate_stopForwarders)
    /\ WF_vars(Terminate_closeListener)
    /\ WF_vars(ListenAndServe_listen)
    /\ WF_vars(ListenAndServe_forward)
    /\ WF_vars(ListenAndServe_serve)

SpecFair == Spec /\ FairHub

\* The server after ListenAndServe has closed runningCh, opened its listener,
\* started its forwarder and begun to serve.
InitRun ==
    /\ sensors = <<>>
    /\ conns = <<>>
    /\ hubPc = "select"
    /\ drainLeft = 0
    /\ parked = {}
    /\ runningClosed = TRUE
    /\ termClosed = FALSE
    /\ termAckClosed = FALSE
    /\ panicked = FALSE
    /\ capState = [c \in Caps |-> StateLow]
    /\ capWatched = [c \in Caps |-> 0]
    /\ capOther = [c \in Caps |-> FALSE]
    /\ nChanges = 0
    /\ capPin = [c \in Caps |-> FALSE]
    /\ pinErr = [c \in Caps |-> FALSE]
    /\ irqCap = 0
    /\ regPc = [k \in Regs |-> "idle"]
    /\ regCap = [k \in Regs |-> 1]
    /\ regRes = [k \in Regs |-> "none"]
    /\ regAfterTerm = [k \in Regs |-> FALSE]
    /\ httpPc = [h \in Https |-> "idle"]
    /\ httpRes = [h \in Https |-> "none"]
    /\ httpBody = [h \in Https |-> <<>>]
    /\ httpAfterTerm = [h \in Https |-> FALSE]
    /\ chgPc = [c \in Conns |-> "idle"]
    /\ chgRes = [c \in Conns |-> "none"]
    /\ chgAfterTerm = [c \in Conns |-> FALSE]
    /\ connSt = [c \in Conns |-> "none"]
    /\ hubClosed = [c \in Conns |-> 0]
    /\ readerPc = [c \in Conns |-> "none"]
    /\ log = [c \in Conns |-> <<>>]
    /\ replayOf = [c \in Conns |-> <<>>]
    /\ nBcast = 0
    /\ regOrder = <<>>
    /\ nChangedHandled = 0
    /\ tPc = [t \in Terms |-> "idle"]
    /\ tRes = [t \in Terms |-> "none"]
    /\ tAfterTerm = [t \in Terms |-> FALSE]
    /\ connsAtTerm = {}
    /\ fwdOrder = <<>>
    /\ unregOf = NoUnreg
    /\ lasPc = "serve"
    /\ listener = "open"
    /\ lnCloses = 0
    /\ fwdSt = "running"
    /\ fwdStops = 0
    /\ nFwd = 0
    /\ fmPc = "off"
    /\ reconnectCh = NoTimer
    /\ reconnectBackoff = 0
    /\ ws = "nil"
    /\ wsClosed = FALSE
    /\ rdPc = "none"
    /\ wrPc = "none"
    /\ fDying = FALSE
    /\ fDead = FALSE
    /\ nDials = 0
    /\ nFail = 0
    /\ everConnected = FALSE
    /\ lastWait = 0
    /\ lastFrame = NoFrame
    /\ nFrames = 0
    /\ pingFlip = FALSE
    /\ rdDeadline = "none"
    /\ nOps = 0

\* The calls and steps of a server that is serving.
NextRun ==
    \/ RegisterSensor
    \/ SensorWatcher
    \/ ForwarderRead
    \/ serveSensors
    \/ serveSensorChanges
    \/ serveSensorChanges_register
    \/ ConnFail
    \/ ConnReader
    \/ loop_registerSensorCh
    \/ loop_registerConnCh
    \/ loop_unregisterConnCh
    \/ loop_sensorChangedCh
    \/ loop_forwardCh
    \/ loop_serveSensorsCh
    \/ loop_termCh
    \/ loop_termCh_wait
    \/ Terminate
    \/ Terminate_close
    \/ Terminate_waitAck
    \/ Terminate_stopForwarders
    \/ Terminate_closeListener
    \/ ListenAndServe_serve

SpecRun == InitRun /\ [][NextRun]_vars

\* The serving server, handed sensors of package random of which some have a
\* watcher already: Sensor.Watch was called on them by another caller.
InitWatch ==
    /\ sensors = <<>>
    /\ conns = <<>>
    /\ hubPc = "select"
    /\ drainLeft = 0
    /\ parked = {}
    /\ runningClosed = TRUE
    /\ termClosed = FALSE
    /\ termAckClosed = FALSE
    /\ panicked = FALSE
    /\ capState = [c \in Caps |-> StateLow]
    /\ capWatched = [c \in Caps |-> 0]
    /\ capOther \in [Caps -> BOOLEAN]
    /\ nChanges = 0
    /\ capPin = [c \in Caps |-> FALSE]
    /\ pinErr = [c \in Caps |-> FALSE]
    /\ irqCap = 0
    /\ regPc = [k \in Regs |-> "idle"]
    /\ regCap = [k \in Regs |-> 1]
    /\ regRes = [k \in Regs |-> "none"]
    /\ regAfterTerm = [k \in Regs |-> FALSE]
    /\ httpPc = [h \in Https |-> "idle"]
    /\ httpRes = [h \in Https |-> "none"]
    /\ httpBody = [h \in Https |-> <<>>]
    /\ httpAfterTerm = [h \in Https |-> FALSE]
    /\ chgPc = [c \in Conns |-> "idle"]
    /\ chgRes = [c \in Conns |-> "none"]
    /\ chgAfterTerm = [c \in Conns |-> FALSE]
    /\ connSt = [c \in Conns |-> "none"]
    /\ hubClosed = [c \in Conns |-> 0]
    /\ readerPc = [c \in Conns |-> "none"]
    /\ log = [c \in Conns |-> <<>>]
    /\ replayOf = [c \in Conns |-> <<>>]
    /\ nBcast = 0
    /\ regOrder = <<>>
    /\ nChangedHandled = 0
    /\ tPc = [t \in Terms |-> "idle"]
    /\ tRes = [t \in Terms |-> "none"]
    /\ tAfterTerm = [t \in Terms |-> FALSE]
    /\ connsAtTerm = {}
    /\ fwdOrder = <<>>
    /\ unregOf = NoUnreg
    /\ lasPc = "serve"
    /\ listener = "open"
    /\ lnCloses = 0
    /\ fwdSt = "running"
    /\ fwdStops = 0
    /\ nFwd = 0
    /\ fmPc = "off"
    /\ reconnectCh = NoTimer
    /\ reconnectBackoff = 0
    /\ ws = "nil"
    /\ wsClosed = FALSE
    /\ rdPc = "none"
    /\ wrPc = "none"
    /\ fDying = FALSE
    /\ fDead = FALSE
    /\ nDials = 0
    /\ nFail = 0
    /\ everConnected = FALSE
    /\ lastWait = 0
    /\ lastFrame = NoFrame
    /\ nFrames = 0
    /\ pingFlip = FALSE
    /\ rdDeadline = "none"
    /\ nOps = 0

SpecWatch == InitWatch /\ [][NextRun]_vars

\* The connections a value of srv.conns or of unregisterConnCh can be.
Handles == 1..(NConn + 1)

\* The values of srv.conns: every connection at most once.
Registrations ==
    {cs \in UNION {[1..n -> Handles] : n \in 0..(NConn + 1)} :
        \A i, j \in 1..Len(cs) : i # j => cs[i] # cs[j]}

\* The values of srv.sensors: every name at most once.
Registries ==
    {rs \in UNION {[1..n -> [name : Names, state : States]] :
                       n \in 0..Cardinality(Names)} :
        \A i, j \in 1..Len(rs) : i # j => rs[i].name # rs[j].name}

\* loop() in its select with any srv.sensors and srv.conns, and a connection,
\* one of srv.conns or not, being sent on unregisterConnCh.
InitUnreg ==
    /\ sensors \in Registries
    /\ conns \in Registrations
    /\ hubPc = "select"
    /\ drainLeft = 0
    /\ parked \in {{Msg("unreg", c, "", "")} : c \in Handles}
    /\ runningClosed = FALSE
    /\ termClosed = FALSE
    /\ termAckClosed = FALSE
    /\ panicked = FALSE
    /\ capState = [c \in Caps |-> StateLow]
    /\ capWatched = [c \in Caps |-> 0]
    /\ capOther = [c \in Caps |-> FALSE]
    /\ nChanges = 0
    /\ capPin = [c \in Caps |-> FALSE]
    /\ pinErr = [c \in Caps |-> FALSE]
    /\ irqCap = 0
    /\ regPc = [k \in Regs |-> "idle"]
    /\ regCap = [k \in Regs |-> 1]
    /\ regRes = [k \in Regs |-> "none"]
    /\ regAfterTerm = [k \in Regs |-> FALSE]
    /\ httpPc = [h \in Https |-> "idle"]
    /\ httpRes = [h \in Https |-> "none"]
    /\ httpBody = [h \in Https |-> <<>>]
    /\ httpAfterTerm = [h \in Https |-> FALSE]
    /\ chgPc = [c \in Conns |-> "idle"]
    /\ chgRes = [c \in Conns |-> "none"]
    /\ chgAfterTerm = [c \in Conns |-> FALSE]
    /\ connSt = [c \in Conns |-> "none"]
    /\ hubClosed = [c \in Conns |-> 0]
    /\ readerPc = [c \in Conns |-> "none"]
    /\ log = [c \in Conns |-> <<>>]
    /\ replayOf = [c \in Conns |-> <<>>]
    /\ nBcast = 0
    /\ regOrder = <<>>
    /\ nChangedHandled = 0
    /\ tPc = [t \in Terms |-> "idle"]
    /\ tRes = [t \in Terms |-> "none"]
    /\ tAfterTerm = [t \in Terms |-> FALSE]
    /\ connsAtTerm = {}
    /\ fwdOrder = <<>>
    /\ unregOf = NoUnreg
    /\ lasPc = "idle"
    /\ listener = "nil"
    /\ lnCloses = 0
    /\ fwdSt = "off"
    /\ fwdStops = 0
    /\ nFwd = 0
    /\ fmPc = "off"
    /\ reconnectCh = NoTimer
    /\ reconnectBackoff = 0
    /\ ws = "nil"
    /\ wsClosed = FALSE
    /\ rdPc = "none"
    /\ wrPc = "none"
    /\ fDying = FALSE
    /\ fDead = FALSE
    /\ nDials = 0
    /\ nFail = 0
    /\ everConnected = FALSE
    /\ lastWait = 0
    /\ lastFrame = NoFrame
    /\ nFrames = 0
    /\ pingFlip = FALSE
    /\ rdDeadline = "none"
    /\ nOps = 0

\* The unregisterConnCh case applied to these values.
NextUnreg == loop_unregisterConnCh

SpecUnreg == InitUnreg /\ [][NextUnreg]_vars

\* The server with sensors of package rpi.
NextRpi ==
    \/ RegisterSensor
    \/ onIRQEvent
    \/ ForwarderRead
    \/ serveSensors
    \/ serveSensorChanges
    \/ serveSensorChanges_register
    \/ ConnFail
    \/ ConnReader
    \/ loop_registerSensorCh
    \/ loop_registerConnCh
    \/ loop_unregisterConnCh
    \/ loop_sensorChangedCh
    \/ loop_forwardCh
    \/ loop_serveSensorsCh
    \/ loop_termCh
    \/ loop_termCh_wait
    \/ Terminate
    \/ Terminate_close
    \/ Terminate_waitAck
    \/ Terminate_stopForwarders
    \/ Terminate_closeListener
    \/ ListenAndServe
    \/ ListenAndServe_listen
    \/ ListenAndServe_forward
    \/ ListenAndServe_serve

SpecRpi == Init /\ [][NextRpi]_vars


\* ---- properties ----------------------------------------------------------

\* The number of records of recs with the name n.
Count(recs, n) == Cardinality({i \in 1..Len(recs) : recs[i].name = n})

\* In every log the broadcasts carry increasing numbers, and a broadcast
\* carries the same record in every log it is in.
C1_Order ==
    /\ \A c \in Conns : \A i, j \in 1..Len(log[c]) :
          (i < j /\ log[c][i].seq > 0) => log[c][i].seq < log[c][j].seq
    /\ \A c \in Conns : \A i \in 1..Len(log[c]) : log[c][i].seq <= nBcast
    /\ \A c, d \in Conns : \A i \in 1..Len(log[c]), j \in 1..Len(log[d]) :
          (log[c][i].seq > 0 /\ log[c][i].seq = log[d][j].seq)
              => /\ log[c][i].name = log[d][j].name
                 /\ log[c][i].state = log[d][j].state

\* One step of loop() on a sensorChangedCh message: one write of the message
\* at the end of the log of every connection of srv.conns, which reaches the
\* peer when the connection's stream is open, and no write to any other
\* connection.
C1_Step ==
    (nChangedHandled' # nChangedHandled) =>
        \E m \in parked :
            /\ m \notin parked'
            /\ \A c \in Conns :
                  IF c \in SeqToSet(conns)
                  THEN log'[c] = Append(log[c],
                           [name |-> m.name, state |-> m.state,
                            ok |-> (connSt[c] = "open"), seq |-> nBcast + 1])
                  ELSE log'[c] = log[c]

\* C1: for any sequence of SensorChanged messages, the state of a message
\* being equal to the state of the record or not, every connection that is in
\* srv.conns when loop() processes a message is written exactly one broadcast
\* of it (received whenever the connection's stream is open), after the
\* broadcasts of all the messages processed before; so no two connections see
\* two broadcasts in opposite orders.
C1_BroadcastOncePerConnInOrder == []C1_Order /\ [][C1_Step]_vars

\* Two connections of srv.conns have both received the broadcast of the one
\* SensorChanged message processed so far.
C1_Witness ==
    /\ nChangedHandled = 1
    /\ nBcast = 1
    /\ \E c, d \in Conns :
          /\ c # d
          /\ {c, d} \subseteq SeqToSet(conns)
          /\ \E i \in 1..Len(log[c]), j \in 1..Len(log[d]) :
                /\ log[c][i].seq = 1 /\ log[c][i].ok
                /\ log[d][j].seq = 1 /\ log[d][j].ok

\* No two calls for the same name both succeed, and a name that was refused
\* has exactly one record.
C2_Inv ==
    /\ \A j, k \in Regs :
          (j # k /\ regRes[j] = "ok" /\ regRes[k] = "ok")
              => CapName(regCap[j]) # CapName(regCap[k])
    /\ \A k \in Regs :
          regRes[k] \in {"ok", "ErrRegistered"}
              => Count(sensors, CapName(regCap[k])) = 1

\* One step of loop() on a RegisterSensor command.
C2_Step ==
    \A k \in Regs :
        (regPc[k] = "sent" /\ regPc'[k] = "done") =>
            IF HasName(sensors, CapName(regCap[k]))
            THEN /\ regRes'[k] = "ErrRegistered"
                 /\ sensors' = sensors
                 /\ conns' = conns
                 /\ log' = log
                 /\ capWatched' = capWatched
            ELSE capWatched[regCap[k]] = 0 =>
                 /\ regRes'[k] = "ok"
                 /\ Len(sensors') = Len(sensors) + 1
                 /\ sensors'[Len(sensors')] =
                        Record(CapName(regCap[k]), capState[regCap[k]])

\* C2: RegisterSensor for a name that has no record succeeds; RegisterSensor
\* for a name that has a record returns ErrRegistered and leaves the sensors,
\* the connections and their logs as they were, with exactly one record of
\* that name.
C2_RegisterTwiceConflict == []C2_Inv /\ [][C2_Step]_vars

\* The same name was registered twice: the first call succeeded, the second
\* was refused.
C2_Witness ==
    \E j, k \in Regs :
        /\ j # k
        /\ CapName(regCap[j]) = CapName(regCap[k])
        /\ regRes[j] = "ok"
        /\ regRes[k] = "ErrRegistered"
        /\ Count(sensors, CapName(regCap[k])) = 1

\* C3: in every reachable state no two records of srv.sensors have the same
\* name, whatever the interleaving of RegisterSensor, local changes and
\* forwarded events.
C3_UniqueNames ==
    \A i, j \in 1..Len(sensors) :
        i # j => sensors[i].name # sensors[j].name

\* A forwarded event inserted a record, a registration inserted another, and
\* a registration of a name that has a record was refused.
C3_Witness ==
    /\ Len(sensors) = 2
    /\ Len(regOrder) = 1
    /\ nFwd > 0
    /\ \E k \in Regs : regRes[k] = "ErrRegistered"

\* A registered connection's log starts with one write per record of
\* srv.sensors as it was at the registration, in its order, and every later
\* write is a broadcast.
C4_Inv ==
    \A c \in Conns :
        readerPc[c] # "none" =>
            /\ Len(log[c]) >= Len(replayOf[c])
            /\ \A i \in 1..Len(log[c]) :
                  IF i <= Len(replayOf[c])
                  THEN /\ log[c][i].seq = 0
                       /\ log[c][i].name = replayOf[c][i].name
                       /\ log[c][i].state = replayOf[c][i].state
                  ELSE log[c][i].seq > 0

\* One step of loop() on a connection: the replay is written in this step,
\* from the records as they are, and reaches the peer when the stream is open.
C4_Step ==
    \A c \in Conns :
        (readerPc[c] = "none" /\ readerPc'[c] # "none") =>
            /\ replayOf'[c] = sensors
            /\ log[c] = <<>>
            /\ Len(log'[c]) = Len(sensors)
            /\ \A i \in 1..Len(sensors) : log'[c][i].ok = (connSt[c] = "open")

\* C4: a connection registered when srv.sensors holds N records is written
\* exactly N replay messages, one per record, in insertion order and with the
\* record's current state (received whenever its stream is open), all of them
\* before any broadcast of a later step of loop().
C4_ReplayBeforeBroadcasts == []C4_Inv /\ [][C4_Step]_vars

\* A connection joined when there were two records, received both and then
\* a broadcast.
C4_Witness ==
    \E c \in Conns :
        /\ Len(replayOf[c]) = 2
        /\ Len(log[c]) > 2
        /\ \A i \in 1..Len(log[c]) : log[c][i].ok


\* The errors of a Terminate call that found the server terminating.
TermErrors == {"ErrTerminating", "ErrTerminated"}

\* Terminate has got past <-srv.termAckCh.
PastTermAck(t) ==
    tPc[t] \in {"stopFwd", "closeLn"} \/ (tPc[t] = "done" /\ tRes[t] = "nil")

\* C5: Terminate() does not return before every connection that was in
\* srv.conns when loop() took its termCh case has been closed by loop() and
\* the message of its reader goroutine on unregisterConnCh has been received.
C5_TerminateWaitsForReaders ==
    \A t \in Terms :
        PastTermAck(t) =>
            \A c \in connsAtTerm :
                /\ hubClosed[c] >= 1
                /\ connSt[c] = "closed"
                /\ readerPc[c] = "sent"
                /\ ~Blocked("unreg", c)

\* Terminate() returned nil after loop() closed two connections.
C5_Witness ==
    /\ Cardinality(connsAtTerm) = 2
    /\ \E t \in Terms : tPc[t] = "done" /\ tRes[t] = "nil"

\* C6: a Terminate() call that makes its check after an earlier call has
\* closed termCh returns ErrTerminating or ErrTerminated in that step, and no
\* connection, forwarder or listener is closed a second time.
C6_SecondTerminateReturnsError ==
    /\ \A t \in Terms :
          (tAfterTerm[t] /\ tPc[t] # "idle")
              => tPc[t] = "done" /\ tRes[t] \in TermErrors
    /\ \A c \in Conns : hubClosed[c] <= 1
    /\ fwdStops <= 1
    /\ lnCloses <= 1

\* A first Terminate() closed a connection, stopped the forwarders and closed
\* the listener and returned nil; a second one returned an error.
C6_Witness ==
    /\ \E t \in Terms : tPc[t] = "done" /\ tRes[t] = "nil"
    /\ \E t \in Terms : tAfterTerm[t] /\ tRes[t] \in TermErrors
    /\ lnCloses = 1
    /\ fwdStops = 1

\* C7: a RegisterSensor call made after termCh has been closed is refused
\* with a terminating or terminated error and returns: it is neither
\* processed nor left blocked on registerSensorCh once loop() has returned.
C7_RegisterAfterTerminateRejected ==
    \A k \in Regs :
        (regAfterTerm[k] /\ regPc[k] # "idle") =>
            /\ regRes[k] \notin {"ok", "ErrRegistered", "ErrWatch"}
            /\ ~(hubPc = "exited" /\ Blocked("register", k))

\* The step in which a GET /api/sensors request gets its answer.
C8_Step ==
    \A h \in Https :
        (httpRes[h] = "none" /\ httpRes'[h] # "none") =>
            IF termClosed'
            THEN httpRes'[h] = "503"
            ELSE httpRes'[h] = "200" /\ httpBody'[h] = sensors

\* C8: a GET /api/sensors request whose select is decided while termCh is
\* closed is answered 503; otherwise it is answered 200 with the records of
\* srv.sensors in their order.
C8_SnapshotUnavailableWhenTerminating == [][C8_Step]_vars

\* A request made after Terminate was answered 503 although there is a record
\* to report.
C8_Witness ==
    \E h \in Https :
        /\ httpAfterTerm[h]
        /\ httpRes[h] = "503"
        /\ Len(sensors) >= 1

\* The step of loop() that answers a GET /api/sensors request.
C9_Step ==
    \A h \in Https :
        (httpRes[h] # "200" /\ httpRes'[h] = "200") =>
            /\ httpBody'[h] = sensors
            /\ sensors' = sensors
            /\ conns' = conns
            /\ \A n \in Names : Count(httpBody'[h], n) = Count(sensors, n)
            /\ (nChangedHandled = 0 => httpBody'[h] = regOrder)

\* C9: the snapshot holds every record of srv.sensors exactly once, in
\* insertion order and with its current state, and taking it changes neither
\* srv.sensors nor srv.conns; when only RegisterSensor calls came before, it
\* is the registered sensors in the order of the calls, with the states they
\* had then.
C9_SnapshotInInsertionOrder == [][C9_Step]_vars

\* A snapshot of two sensors registered one after the other.
C9_Witness ==
    \E h \in Https :
        /\ httpRes[h] = "200"
        /\ Len(httpBody[h]) = 2
        /\ httpBody[h] = regOrder
        /\ nChangedHandled = 0

\* C10: a /changes request that makes its terminating() check while termCh
\* is closed is answered 503, is never upgraded, and its connection is never
\* in srv.conns.
C10_UpgradeRefusedWhenTerminating ==
    \A c \in Conns :
        chgAfterTerm[c] =>
            /\ chgPc[c] = "done"
            /\ chgRes[c] = "503"
            /\ connSt[c] = "none"
            /\ readerPc[c] = "none"
            /\ c \notin SeqToSet(conns)

\* A /changes request arrived after Terminate and got 503.
C10_Witness ==
    \E c \in Conns : chgAfterTerm[c] /\ chgRes[c] = "503" /\ termClosed


\* The lifecycle phase of the server: 0 not running, 1 running (runningCh
\* closed), 2 terminating (termCh closed), 3 terminated (termAckCh closed).
Phase ==
    IF termAckClosed THEN 3
    ELSE IF termClosed THEN 2
    ELSE IF runningClosed THEN 1
    ELSE 0

\* No step moves the server to an earlier phase, and no step of a terminated
\* server opens a listener or starts the forwarders.
C11_Step ==
    /\ Phase' >= Phase
    /\ termAckClosed =>
          /\ (listener' = "open" => listener = "open")
          /\ (fwdSt' = "running" => fwdSt = "running")

\* C11: the phase of the server only advances along not running, running,
\* terminating, terminated, and once terminated the server never opens a
\* listener and never starts forwarders.
C11_LifecycleOnlyAdvances == [][C11_Step]_vars


C13_FirstWaitAfterLossIsInitial ==
    (fmPc = "dial" /\ everConnected /\ nFail = 1) =>
        lastWait = initialReconnectBackoff

\* C14: a failed attempt is never followed by the next attempt without a
\* backoff wait in between, also after a connection was established and lost.
C14_NoHotLoop ==
    (fmPc = "dial" /\ nFail >= 1) => lastWait >= initialReconnectBackoff

\* C17: no connection attempt is made, and so no new pair of workers is
\* started, while readLoop or writeLoop of an earlier connection is running.
C17_OnePairOfWorkers ==
    fmPc = "dial" => rdPc \in {"none", "done"} /\ wrPc \in {"none", "done"}

\* An attempt after a connection whose workers have both returned.
C17_Witness ==
    /\ fmPc = "dial"
    /\ everConnected
    /\ rdPc = "done"
    /\ wrPc = "done"

\* The step of readLoop that reads a message.
C18_Step ==
    (nFrames' # nFrames /\ lastFrame'.kind # "event") =>
        /\ parked' = parked
        /\ nFwd' = nFwd
        /\ rdPc' = "read"

\* C18: a message that is not a text frame, does not decode, or decodes to
\* something that is not a {name, state} event is dropped: nothing is offered
\* to the server and the reader goes on reading.
C18_MalformedDropped == [][C18_Step]_vars


\* C15: a forwarder that was told to stop has exited (Dead() is closed) or
\* one of its goroutines can take a step, in every connection phase.
C15_StoppedForwarderExits == fDying => (fDead \/ ENABLED ForwarderStep)

\* A connection of the forwarder has lost one of its workers, and no stop was
\* requested.
C16_WorkerFailed ==
    /\ fmPc = "select"
    /\ reconnectCh = NoTimer
    /\ ~fDying
    /\ rdPc = "done" \/ wrPc = "done"

\* C16: after a read failure of readLoop or a failed PING of writeLoop, both
\* workers return and the connection manager makes a new connection attempt
\* (unless a stop is requested or the process ends first).
C16_FailureLeadsToReconnect ==
    C16_WorkerFailed ~>
        (fmPc = "dial" \/ fDying \/ panicked \/ nDials = MaxDials)


\* The steps that take a running Terminate call towards its return: its own,
\* those of the loop, and those of the forwarder it waits for.
C19_Progress ==
    \/ Terminate_close
    \/ Terminate_waitAck
    \/ Terminate_Stop
    \/ Terminate_Dead
    \/ Terminate_closeListener
    \/ loop_termCh
    \/ loop_forwardCh
    \/ loop_sensorChangedCh
    \/ ForwarderStep

\* Terminate call t has closed termCh and has not returned, and no other call
\* got past the select.
C19_Terminating(t) ==
    /\ tPc[t] \in {"waitAck", "stopFwd", "waitDead", "closeLn"}
    /\ \A u \in Terms \ {t} :
          tPc[u] = "idle" \/ tRes[u] \in {"ErrTerminating", "ErrTerminated"}

\* C19: a Terminate call that has closed termCh can always be taken further
\* towards its return, whatever the readers of the forwarder hold: it is
\* never left waiting for something that cannot happen.
C19_TerminateReturns ==
    \A t \in Terms : C19_Terminating(t) => ENABLED C19_Progress


\* The pin of a sensor with a watcher fails to be read: the state of the
\* sensor is the error value and its watcher sends the error value.  The loop
\* receives an error value: the record of the sensor has it and it is written
\* to every connection of srv.conns.
C20_Step ==
    /\ (nChanges' # nChanges /\ pinErr'[irqCap']) =>
          /\ capState'[irqCap'] = StateError
          /\ capWatched[irqCap'] > 0 =>
                Msg("changed", irqCap', CapName(irqCap'), StateError)
                    \in parked' \ parked
    /\ \A m \in parked \ parked' :
          (/\ nChangedHandled' # nChangedHandled
           /\ m.type = "changed"
           /\ m.state = StateError) =>
              /\ \E i \in 1..Len(sensors') :
                    sensors'[i] = Record(m.name, StateError)
              /\ \A i \in 1..Len(sensors') :
                    sensors'[i].name = m.name => sensors'[i].state = StateError
              /\ \A c \in SeqToSet(conns) :
                    log'[c] = Append(log[c],
                        [name |-> m.name, state |-> StateError,
                         ok |-> (connSt[c] = "open"), seq |-> nBcast + 1])

\* C20: when the pin of a registered rpi sensor fails to be read, the state
\* of the sensor becomes "error" and its watcher sends a change with that
\* state, and when the loop receives it the record of the sensor becomes
\* "error" and the change is written to every connection.
C20_ReadFailureIsBroadcast == [][C20_Step]_vars

\* A sensor whose pin failed, its record in the error state, and the error
\* written to an open connection.
C20_Witness ==
    \E c \in Caps, k \in Conns :
        /\ pinErr[c]
        /\ capState[c] = StateError
        /\ \E i \in 1..Len(sensors) :
              sensors[i] = Record(CapName(c), StateError)
        /\ connSt[k] = "open"
        /\ \E i \in 1..Len(log[k]) :
              /\ log[k][i].name = CapName(c)
              /\ log[k][i].state = StateError
              /\ log[k][i].ok

\* The step of loop() on a sensorChangedCh message m.
C21_Step ==
    (nChangedHandled' # nChangedHandled) =>
        \E m \in parked \ parked' :
            /\ conns' = conns
            /\ IF HasName(sensors, m.name)
               THEN /\ Len(sensors') = Len(sensors)
                    /\ Count(sensors, m.name) = 1
                    /\ \A i \in 1..Len(sensors) :
                          IF sensors[i].name = m.name
                          THEN sensors'[i] = Record(m.name, m.state)
                          ELSE sensors'[i] = sensors[i]
               ELSE sensors' = Append(sensors, Record(m.name, m.state))

\* C21: processing SensorChanged(name, s) changes the state of the one record
\* of that name to s and leaves the length, the order and the other records
\* of srv.sensors as they were, or, when no record has the name, appends
\* exactly {name, s} at the end; srv.conns is unchanged in both cases.
C21_ChangeUpdatesInPlaceOrAppends == [][C21_Step]_vars

\* Two changes were processed, one that appended a record behind a registered
\* one and one that changed the state of a record that is not the only one.
C21_Witness ==
    /\ nChangedHandled = 2
    /\ Len(regOrder) = 1
    /\ Len(sensors) = 2
    /\ sensors[1] = regOrder[1]
    /\ sensors[2].name # sensors[1].name

\* The step of loop() that resolves a RegisterSensor call as a success.
C22_Step ==
    \A k \in Regs :
        (regRes[k] # "ok" /\ regRes'[k] = "ok") =>
            LET record == Record(CapName(regCap[k]), capState[regCap[k]])
            IN  /\ sensors' = Append(sensors, record)
                /\ \A c \in Conns :
                      IF runningClosed /\ c \in SeqToSet(conns)
                      THEN log'[c] = Append(log[c],
                               [name |-> record.name, state |-> record.state,
                                ok |-> (connSt[c] = "open"),
                                seq |-> nBcast + 1])
                      ELSE log'[c] = log[c]

\* C22: a successful RegisterSensor appends the record and, when runningCh is
\* closed (ListenAndServe was called), writes it once to every connection of
\* srv.conns; while runningCh is open it appends the record and writes
\* nothing to any connection.
C22_RegisterBroadcastsWhenRunning == [][C22_Step]_vars

\* A connection registered before any sensor: the registration made before
\* ListenAndServe wrote nothing to it, the one made after it wrote its record.
C22_Witness ==
    /\ runningClosed
    /\ Len(regOrder) = 2
    /\ \E c \in SeqToSet(conns) :
          /\ connSt[c] = "open"
          /\ replayOf[c] = <<>>
          /\ Len(log[c]) = 1
          /\ log[c][1].ok
          /\ log[c][1].seq > 0
          /\ log[c][1].name = regOrder[2].name

\* The messages that carry forwarded event i towards loop(): the event
\* offered on forwardCh, or held by the goroutine of the forwardCh case.
C23_InFlight(i) ==
    Cardinality({m \in parked : m.type \in {"forward", "fwdgo"} /\ m.id = i})

\* The times loop() applied forwarded event i.
C23_Applied(i) ==
    Cardinality({j \in 1..Len(fwdOrder) : fwdOrder[j] = i})

\* Every event the forwarder offered is on its way or was applied, once, or
\* was given up after termCh was closed or the forwarder was stopped.
C23_Inv ==
    \A i \in 1..nFwd :
        /\ C23_InFlight(i) + C23_Applied(i) <= 1
        /\ C23_InFlight(i) + C23_Applied(i) = 0 => termClosed \/ fwdStops > 0

\* The forwarder offers one message per event, and loop() applies a forwarded
\* event as it applies a change of a local sensor: the record of the name
\* gets the state, or is appended, and every connection is written the event.
C23_Step ==
    /\ (nFwd' # nFwd) =>
          \E m \in parked' :
              /\ m.type = "forward"
              /\ m.id = nFwd'
              /\ parked' = parked \cup {m}
              /\ m \notin parked
    /\ (fwdOrder' # fwdOrder) =>
          \E m \in parked \ parked' :
              /\ m.type = "fwdgo"
              /\ fwdOrder' = Append(fwdOrder, m.id)
              /\ Count(sensors', m.name) = 1
              /\ \E i \in 1..Len(sensors') :
                    sensors'[i] = Record(m.name, m.state)
              /\ Len(sensors') =
                    Len(sensors) + (IF HasName(sensors, m.name) THEN 0 ELSE 1)
              /\ \A c \in Conns :
                    IF c \in SeqToSet(conns)
                    THEN log'[c] = Append(log[c],
                             [name |-> m.name, state |-> m.state,
                              ok |-> (connSt[c] = "open"),
                              seq |-> nBcast + 1])
                    ELSE log'[c] = log[c]

\* C23: every event of the forwarder reaches loop() as exactly one message on
\* sensorChangedCh, never twice, and fails to reach it only when termCh was
\* closed or the forwarder stopped first; loop() then sets or appends the
\* record and writes the event to every connection, as for a local change.
C23_ForwardedOnceAndApplied == []C23_Inv /\ [][C23_Step]_vars

\* A forwarded event was applied and written to an open connection.
C23_Witness ==
    /\ Len(fwdOrder) = 1
    /\ nChangedHandled = 1
    /\ Len(sensors) = 1
    /\ \E c \in SeqToSet(conns) :
          /\ connSt[c] = "open"
          /\ Len(log[c]) = 1
          /\ log[c][1].ok
          /\ log[c][1].name = sensors[1].name
          /\ log[c][1].state = sensors[1].state

\* C24: loop() applies the events of the forwarder in the order in which the
\* forwarder read them, so that the record of a forwarded sensor ends with
\* the last state that was read for it.
C24_ForwardedInOrder ==
    \A j, k \in 1..Len(fwdOrder) : j < k => fwdOrder[j] < fwdOrder[k]

\* A step that writes a broadcast writes it to every connection of srv.conns,
\* those behind a connection whose write fails included, and leaves srv.conns
\* as it is; the step that registers a connection writes the whole replay,
\* failed writes included; a connection leaves srv.conns only in the step in
\* which loop() receives it on unregisterConnCh.
C25_Step ==
    /\ (nBcast' # nBcast) =>
          /\ conns' = conns
          /\ \A c \in SeqToSet(conns) :
                /\ Len(log'[c]) = Len(log[c]) + 1
                /\ log'[c][Len(log'[c])].seq = nBcast'
                /\ log'[c][Len(log'[c])].ok = (connSt[c] = "open")
    /\ \A c \in Conns :
          (readerPc[c] = "none" /\ readerPc'[c] # "none") =>
              /\ conns' = Append(conns, c)
              /\ Len(log'[c]) = Len(log[c]) + Len(sensors)
    /\ \A c \in SeqToSet(conns) \ SeqToSet(conns') :
          /\ hubPc = "select"
          /\ Msg("unreg", c, "", "") \in parked \ parked'
          /\ readerPc[c] = "sent"

\* C25: a failed WriteJSON of a broadcast or of a replay changes nothing in
\* srv.conns and does not keep the message from the connections that follow,
\* and a connection is removed from srv.conns only when loop() handles the
\* unregisterConnCh message of the reader of that connection.
C25_WriteErrorKeepsConnection == [][C25_Step]_vars

\* A broadcast whose write to the first connection of srv.conns failed and
\* whose write to the second one arrived, both connections still registered.
C25_Witness ==
    /\ Len(conns) = 2
    /\ connSt[conns[1]] = "closed"
    /\ connSt[conns[2]] = "open"
    /\ nBcast = 1
    /\ \E i \in 1..Len(log[conns[1]]) :
          log[conns[1]][i].seq = 1 /\ ~log[conns[1]][i].ok
    /\ \E i \in 1..Len(log[conns[2]]) :
          log[conns[2]][i].seq = 1 /\ log[conns[2]][i].ok

\* The connections whose reader goroutine runs or is blocked on its send to
\* unregisterConnCh.
C26_Reporting ==
    {c \in Conns : readerPc[c] = "reading" \/ Blocked("unreg", c)}

C26_Inv ==
    /\ Len(conns) = Cardinality(SeqToSet(conns))
    /\ hubPc = "select" => SeqToSet(conns) = C26_Reporting
    /\ hubPc = "drain" =>
          /\ C26_Reporting \subseteq SeqToSet(conns)
          /\ drainLeft = Cardinality(C26_Reporting)
          /\ drainLeft > 0
    /\ hubPc = "exited" => C26_Reporting = {}

\* A reader is started in the step that registers its connection and sends
\* one message, after which it has returned.
C26_Step ==
    \A c \in Conns :
        /\ (readerPc[c] = "none" /\ readerPc'[c] # "none") =>
              /\ readerPc'[c] = "reading"
              /\ c \notin SeqToSet(conns)
              /\ conns' = Append(conns, c)
        /\ readerPc[c] = "reading" => readerPc'[c] \in {"reading", "sent"}
        /\ readerPc[c] = "sent" => readerPc'[c] = "sent"
        /\ (Msg("unreg", c, "", "") \in parked' \ parked) =>
              readerPc[c] = "reading" /\ readerPc'[c] = "sent"

C27_Idempotent ==
    \A c \in Handles :
        RemoveConn(RemoveConn(conns, c), c) = RemoveConn(conns, c)

\* The unregisterConnCh case for a connection: without it srv.conns is the
\* other connections in their order, one shorter when the connection was in
\* it and the same when it was not; srv.sensors is as it was.
C27_Step ==
    (parked' # parked) =>
        LET c == unregOf'.conn
        IN  /\ Msg("unreg", c, "", "") \in parked \ parked'
            /\ unregOf'.before = conns
            /\ sensors' = sensors
            /\ conns' = SelectSeq(conns, LAMBDA x : x # c)
            /\ IF c \in SeqToSet(conns)
               THEN Len(conns') = Len(conns) - 1
               ELSE conns' = conns

\* C27: processing UnregisterConnection for a connection of srv.conns removes
\* exactly that connection and keeps the others in their order, processing it
\* for a connection that is not in srv.conns leaves srv.conns unchanged (so a
\* second one changes nothing), and srv.sensors is unchanged in both cases.
C27_UnregisterIdempotent == []C27_Idempotent /\ [][C27_Step]_vars

\* The case was applied to a connection that was not one of the two
\* connections of srv.conns.
C27_Witness ==
    /\ parked = {}
    /\ unregOf.conn \in Handles \ SeqToSet(unregOf.before)
    /\ Len(unregOf.before) = 2
    /\ conns = unregOf.before
    /\ sensors # <<>>

\* The watchers loop() has set on a capability are as many as the calls that
\* succeeded for it, and at most one.
C28_Inv ==
    \A c \in Caps :
        /\ capWatched[c] =
               Cardinality({k \in Regs : regRes[k] = "ok" /\ regCap[k] = c})
        /\ capWatched[c] <= 1

\* The step of loop() that resolves a RegisterSensor call.
C28_Step ==
    \A k \in Regs :
        /\ (regRes[k] # "ok" /\ regRes'[k] = "ok") =>
               capWatched' = [capWatched EXCEPT ![regCap[k]] = @ + 1]
        /\ (regRes[k] # "ErrRegistered" /\ regRes'[k] = "ErrRegistered") =>
               capWatched' = capWatched

\* C28: a RegisterSensor call that succeeds sets exactly one watcher, on its
\* own sensor; a call rejected because the name is registered sets none.
C28_OneSubscriptionPerRegistration == []C28_Inv /\ [][C28_Step]_vars

\* Two calls for the same capability are resolved, one succeeded and one was
\* rejected as registered, and the capability has one watcher.
C28_Witness ==
    \E j, k \in Regs :
        /\ regRes[j] = "ok"
        /\ regRes[k] = "ErrRegistered"
        /\ regCap[j] = regCap[k]
        /\ capWatched[regCap[j]] = 1

\* A case of the select of loop() receives a message.
C29_LoopReceives ==
    \/ loop_registerSensorCh
    \/ loop_registerConnCh
    \/ loop_unregisterConnCh
    \/ loop_sensorChangedCh
    \/ loop_forwardCh
    \/ loop_serveSensorsCh

\* After a registration failed in Watch, loop() is in its select and takes
\* whatever is sent to it.
C29_Inv ==
    ((\E k \in Regs : regRes[k] = "ErrWatch") /\ Selecting /\ parked # {})
        => ENABLED C29_LoopReceives

\* The step of loop() that resolves a RegisterSensor call for a sensor whose
\* name is not registered and which has a watcher.
C29_Step ==
    \A k \in Regs :
        (/\ regRes[k] = "none"
         /\ regRes'[k] # "none"
         /\ ~IsRegistered(sensors, CapName(regCap[k]))
         /\ (capWatched[regCap[k]] > 0 \/ capOther[regCap[k]])) =>
            /\ regRes'[k] = "ErrWatch"
            /\ sensors' = sensors
            /\ log' = log
            /\ nBcast' = nBcast
            /\ capWatched' = capWatched
            /\ conns' = conns
            /\ hubPc' = "select"
            /\ ~panicked'

\* C29: when Watch fails on the sensor of a RegisterSensor call, the call
\* returns that error, no record is added, nothing is written to any
\* connection, and loop() goes on receiving.
C29_WatchFailureRejects == []C29_Inv /\ [][C29_Step]_vars

\* A call failed in Watch while a connection was registered, and loop() has a
\* message to receive after it.
C29_Witness ==
    /\ \E k \in Regs : regRes[k] = "ErrWatch"
    /\ conns # <<>>
    /\ Selecting
    /\ parked # {}
    /\ sensors = <<>>
    /\ \A c \in Conns : log[c] = <<>>

\* Every record stays at its index, under its name.
C30_Step ==
    /\ Len(sensors') >= Len(sensors)
    /\ \A i \in 1..Len(sensors) : sensors'[i].name = sensors[i].name

\* C30: no step deletes a record of srv.sensors or moves it: the names of
\* the registry before the step are a prefix of the names after it.
C30_RecordsNeverDeletedOrReordered == [][C30_Step]_vars

\* Two records, and the first has been updated since it was registered: it
\* kept its index through the later append and through its update.
C30_Witness ==
    /\ Len(sensors) = 2
    /\ Len(regOrder) >= 1
    /\ sensors[1].name = regOrder[1].name
    /\ sensors[1].state # regOrder[1].state
    /\ termClosed

\* The Terminate calls that took the default case of the select: they close
\* termCh, wait for loop(), stop the forwarders and close the listener.
C33_Performing ==
    {t \in Terms : \/ tPc[t] \in {"close", "waitAck", "stopFwd", "closeLn"}
                   \/ tRes[t] = "nil"}

\* C33: of the Terminate calls that run concurrently at most one performs
\* the termination, the others return ErrTerminating or ErrTerminated, and
\* termCh is never closed twice (a second close panics).
C33_OneTerminatePerforms ==
    /\ ~panicked
    /\ Cardinality(C33_Performing) <= 1
    /\ \A t \in Terms :
          (tPc[t] = "done" /\ t \notin C33_Performing) =>
              tRes[t] \in {"ErrTerminating", "ErrTerminated"}

\* A snapshot request waits only for a loop() that is in its select with
\* termCh open; an answer 503 is given only once termCh is closed, and a
\* request that returned has one of the two answers.
C31_Inv ==
    \A h \in Https :
        /\ httpPc[h] = "wait" =>
               (~termClosed /\ ~panicked /\ hubPc = "select"
                /\ Blocked("serve", h))
        /\ httpRes[h] = "503" => termClosed
        /\ httpPc[h] = "done" => httpRes[h] \in {"200", "503"}

\* C31: every snapshot request returns, with 200 after loop() has written
\* the records or with 503 after termCh was closed; none is left waiting,
\* whether loop() is in its select, waits for the readers or has returned.
C31_SnapshotRequestCompletes ==
    /\ []C31_Inv
    /\ \A h \in Https : (httpPc[h] = "wait") ~> (httpPc[h] = "done")

\* A request that was waiting for loop() when termCh was closed got 503, and
\* loop() is past its select.
C31_Witness ==
    \E h \in Https :
        /\ httpRes[h] = "503"
        /\ ~httpAfterTerm[h]
        /\ hubPc \in {"drain", "exited"}

\* C32: once a Terminate call has returned nil, no connection that completed
\* its upgrade is open: loop() closed the registered ones and the upgrade
\* handler closed the others.
C32_NoOpenConnectionAfterTerminate ==
    (\E t \in Terms : tRes[t] = "nil") =>
        \A c \in Conns : connSt[c] # "open"

\* C34: once a Terminate call has returned nil, the listener that
\* ListenAndServe opened is closed and the forwarders it started are
\* stopped, whether Terminate ran before, during or after ListenAndServe.
C34_TerminateStopsListenAndServe ==
    (\E t \in Terms : tRes[t] = "nil") =>
        (listener # "open" /\ fwdSt # "running")

\* C35: the watcher of a registered sensor is never left blocked in its send
\* on sensorChangedCh: once loop() has returned no watcher is waiting for it.
C35_WatcherNeverStuck ==
    hubPc = "exited" => \A c \in Caps : ~Blocked("changed", c)

\* The messages that reached connection c for the name n, in order.
C36_Received(c, n) == SelectSeq(log[c], LAMBDA e : e.ok /\ e.name = n)

\* C36: for every connection of srv.conns whose writes all succeeded and
\* every record of srv.sensors, the last message the connection received for
\* the name of the record carries the state of the record.
C36_SubscriberViewConsistent ==
    \A c \in SeqToSet(conns) :
        (\A j \in 1..Len(log[c]) : log[c][j].ok) =>
            \A i \in 1..Len(sensors) :
                LET got == C36_Received(c, sensors[i].name)
                IN  /\ got # <<>>
                    /\ got[Len(got)].state = sensors[i].state

\* A step that changes the state of a sensor with a watcher sends the new
\* state on sensorChangedCh.
C37_Step ==
    \A c \in Caps :
        (capWatched[c] > 0 /\ capState'[c] # capState[c]) =>
            Msg("changed", c, CapName(c), capState'[c]) \in parked' \ parked

\* C37: whenever the state of a hardware sensor changes (unlocked, locked or
\* error, also from error back to the state of the last value read), its
\* watcher is run and the new state is sent to loop().
C37_EveryStateChangeNotified == [][C37_Step]_vars

\* readLoop reads with a read deadline set.
C38_DeadlineSet == rdPc = "read" => rdDeadline \in {"fresh", "due"}

\* The step in which the read deadline passes: ReadMessage fails and readLoop
\* returns.
C38_Step ==
    (rdDeadline # "expired" /\ rdDeadline' = "expired") =>
        (rdPc = "read" /\ rdPc' = "done")

\* C38: readLoop sets a read deadline before its first read and the pong
\* handler sets it anew; when the deadline passes the read fails, and the
\* connection is then given up like a dead one: the connection manager makes
\* a new connection attempt (unless a stop is requested or the process ends
\* first).
C38_DeadlineExpiryTreatedAsDead ==
    /\ []C38_DeadlineSet
    /\ [][C38_Step]_vars
    /\ (rdDeadline = "expired" /\ ~fDying) ~>
           (fmPc = "dial" \/ fDying \/ panicked \/ nDials = MaxDials)

====
